---- MODULE Spec2Model ----
(***************************************************************************)
(* A model of the subsystems of prebid-server:                             *)
(*                                                                         *)
(*   - the auction (exchange/exchange.go): HoldAuction, getAllBids with    *)
(*     one goroutine per bidder, recoverSafely, validateBids and the       *)
(*     response assembly.  Specification: Spec (FairSpec adds fairness).   *)
(*   - the stored-request event listener and the admin HTTP producer       *)
(*     (stored_requests/events).  Specification: SpecEvents                *)
(*     (FairSpecEvents adds fairness).                                     *)
(*   - the fetcher/cache composition (stored_requests/fetcher.go).         *)
(*     Specification: SpecFetch.                                           *)
(*   - composed caches and stacked fetchers (Compose, WithCache with       *)
(*     Subscriptions).  Specification: SpecCompose.                        *)
(*   - the database notify producer (events/postgres).  Specification:     *)
(*     SpecPg (FairSpecPg adds fairness).                                  *)
(*   - the file fetcher with its watcher (backends/file_fetcher).          *)
(*     Specification: SpecFiles.                                           *)
(*   - functions checked on their own, one call each: validateBids,        *)
(*     validateCurrency, makeAuctionContext, the adapters' MakeBids and    *)
(*     the metrics' NewMetrics.  Specification: SpecCalls.                 *)
(*                                                                         *)
(* Every specification moves only the variables of its own subsystem; the  *)
(* others keep the value their Init gives them.                            *)
(***************************************************************************)
EXTENDS Integers, Sequences, FiniteSets, TLC

(***************************************************************************)
(* Bounds of the model.                                                    *)
(***************************************************************************)
\* Number of bidders configured in the exchange.
NumBidders == 2

\* Number of HTTP requests the admin endpoint serves in one behaviour.
MaxRequests == 2

\* Number of FetchRequests / cache events in one behaviour of SpecFetch.
MaxOps == 3

(***************************************************************************)
(* Generic helpers.                                                        *)
(***************************************************************************)
Range(s) == {s[i] : i \in 1..Len(s)}

\* All sequences without repetition that enumerate the set S.
Orderings(S) ==
    {f \in [1..Cardinality(S) -> S] : \A i, j \in 1..Cardinality(S) : f[i] = f[j] => i = j}

\* The map m restricted to the keys in K.
Restrict(m, K) == [k \in (DOMAIN m) \cap K |-> m[k]]

\* strings.ToUpper over the strings the model uses.
ToUpper(s) ==
    CASE s = "usd" -> "USD"
      [] s = "eur" -> "EUR"
      [] s = "zzz" -> "ZZZ"
      [] OTHER -> s

(***************************************************************************)
(*                      THE AUCTION: exchange.go                           *)
(***************************************************************************)
BidderNames == <<"x", "y", "z", "w">>
Bidders == {BidderNames[i] : i \in 1..NumBidders}

\* Errors.  An error either carries a code (errortypes.Coder) or is a plain
\* error (fmt.Errorf, currency.ParseISO), for which code = "".
PlainError(m) == [code |-> "", msg |-> m]
CodedError(c, m) == [code |-> c, msg |-> m]

\* errortypes.DecodeError: the code of a coded error, Unknown otherwise.
DecodeError(err) == IF err.code = "" THEN "Unknown" ELSE err.code

\* An openrtb.Bid wrapped in a pbsOrtbBid; nil marks bid.bid == nil.
GoodBid == [nil |-> FALSE, ID |-> "a", ImpID |-> "1", Price |-> 150, CrID |-> "c"]
NilBid == [nil |-> TRUE, ID |-> "", ImpID |-> "", Price |-> 0, CrID |-> ""]
BidNoID == [GoodBid EXCEPT !.ID = ""]
BidNoImpID == [GoodBid EXCEPT !.ImpID = ""]
BidNoPrice == [GoodBid EXCEPT !.Price = 0]
BidNoCrID == [GoodBid EXCEPT !.CrID = ""]
BidSamples == {GoodBid, BidNoID, BidNoImpID, BidNoPrice, BidNoCrID, NilBid}

\* A *pbsOrtbSeatBid: nil, or a seat with its bids and declared currency.
NilSeat == [nil |-> TRUE, bids |-> <<>>, currency |-> ""]
Seat(bids, cur) == [nil |-> FALSE, bids |-> bids, currency |-> cur]

\* The currencies a seat may declare and the allow-lists a request may carry.
SeatCurrencies == {"", "usd", "EUR", "ZZZ"}
RequestCurs == {<<>>, <<"eur">>}

\* The codes currency.ParseISO recognises, among the strings of the model.
ISOCodes == {"USD", "EUR"}

\* currency.ParseISO without the case fixing.
ParseISO_CaseSensitive(s) ==
    IF s \in ISOCodes
    THEN [ok |-> TRUE, unit |-> s]
    ELSE [ok |-> FALSE, unit |-> ""]

\* currency.ParseISO: fixes the case of the 3-letter code, then looks it up.
ParseISO(s) ==
    IF ToUpper(s) \in ISOCodes
    THEN [ok |-> TRUE, unit |-> ToUpper(s)]
    ELSE [ok |-> FALSE, unit |-> ""]

\* validateCurrency that accepts every currency.
validateCurrency_AcceptsAll(requestAllowedCurrencies, bidCurrency) == <<>>

\* validateCurrency: the list of errors (empty for nil).
validateCurrency(requestAllowedCurrencies, bidCurrency) ==
    LET cur == IF bidCurrency = "" THEN "USD" ELSE bidCurrency
        parsed == ParseISO(cur)
        allowed == IF Len(requestAllowedCurrencies) = 0
                   THEN <<"USD">> ELSE requestAllowedCurrencies
    IN  IF ~parsed.ok
        THEN <<PlainError("currency: tag is not a recognized currency")>>
        ELSE IF \E i \in 1..Len(allowed) : ToUpper(allowed[i]) = parsed.unit
             THEN <<>>
             ELSE <<PlainError("Bid currency is not allowed")>>

\* validateBid with the price test weakened to "< 0".
validateBid_ZeroPriceOk(bid) ==
    ~bid.nil /\ bid.ID # "" /\ bid.ImpID # "" /\ ~(bid.Price < 0) /\ bid.CrID # ""

\* validateBid: TRUE when the bid passes.
validateBid(bid) ==
    ~bid.nil /\ bid.ID # "" /\ bid.ImpID # "" /\ ~(bid.Price <= 0) /\ bid.CrID # ""

\* The error validateBid returns for a bid that does not pass.
validateBidError(bid) ==
    IF bid.nil THEN PlainError("Empty bid object submitted.")
    ELSE IF bid.ID = "" THEN PlainError("Bid missing required field 'id'")
    ELSE IF bid.ImpID = "" THEN PlainError("Bid missing required field 'impid'")
    ELSE IF bid.Price <= 0 THEN PlainError("Bid does not contain a positive 'price'")
    ELSE PlainError("Bid missing creative ID")

\* validateBids that drops a seat left without a valid bid.
validateBids_DropsEmptySeat(seat, allowedCur) ==
    IF seat.nil \/ Len(seat.bids) = 0
    THEN [seat |-> seat, err |-> <<>>]
    ELSE LET cerr == validateCurrency(allowedCur, seat.currency)
             validBids == SelectSeq(seat.bids, validateBid)
             invalid == SelectSeq(seat.bids, LAMBDA b : ~validateBid(b))
         IN  IF Len(cerr) > 0
             THEN [seat |-> [seat EXCEPT !.bids = <<>>], err |-> cerr]
             ELSE [seat |-> IF Len(validBids) = 0 THEN NilSeat
                            ELSE [seat EXCEPT !.bids = validBids],
                   err |-> [i \in 1..Len(invalid) |-> validateBidError(invalid[i])]]

\* validateBids: the seat after validation and the errors returned.
validateBids(seat, allowedCur) ==
    IF seat.nil \/ Len(seat.bids) = 0
    THEN [seat |-> seat, err |-> <<>>]
    ELSE LET cerr == validateCurrency(allowedCur, seat.currency)
             validBids == SelectSeq(seat.bids, validateBid)
             invalid == SelectSeq(seat.bids, LAMBDA b : ~validateBid(b))
         IN  IF Len(cerr) > 0
             THEN [seat |-> [seat EXCEPT !.bids = <<>>], err |-> cerr]
             ELSE [seat |-> [seat EXCEPT !.bids = validBids],
                   err |-> [i \in 1..Len(invalid) |-> validateBidError(invalid[i])]]

\* errsToBidderErrors
errsToBidderErrors(es) ==
    [i \in 1..Len(es) |-> [Code |-> DecodeError(es[i]), Message |-> es[i].msg]]


(***************************************************************************)
(* What an adapter may hand back from requestBid: (bids, err).  The seats  *)
(* cover every defect validateBid looks for, every currency case, and a    *)
(* nil seat with and without an adapter error.                             *)
(***************************************************************************)
SeatSamples ==
    { NilSeat,
      Seat(<<GoodBid>>, ""),
      Seat(<<BidNoCrID, GoodBid>>, "usd"),
      Seat(<<BidNoID, BidNoImpID, BidNoPrice, NilBid>>, ""),
      Seat(<<GoodBid>>, "EUR"),
      Seat(<<GoodBid>>, "ZZZ") }

\* The time requestBid took, in milliseconds.
ElapsedMillis == {7}

AdapterErr == CodedError("BadServerResponse", "unexpected status code")

AdapterResults ==
    {[bids |-> seat, err |-> <<>>, elapsed |-> t] : seat \in SeatSamples, t \in ElapsedMillis}
    \cup {[bids |-> NilSeat, err |-> <<AdapterErr>>, elapsed |-> t] : t \in ElapsedMillis}

\* The request-level errors cleanOpenRTBRequests may return.
CleanerErrs == {<<>>, <<CodedError("BadInput", "request.imp[0].ext contains unknown bidder")>>}

(***************************************************************************)
(*        THE EVENT LISTENER AND THE ADMIN HTTP PRODUCER: data             *)
(***************************************************************************)
\* Stored-request ids.
Ids == {"1", "2"}

\* Request bodies: a JSON object, a JSON object with white space around it,
\* text that is no JSON, and a body whose read fails (ioutil.ReadAll's error).
BodyPlain == "{\"foo\":\"bar\"}"
BodyPadded == " {\"foo\":\"baz\"}\n"
BodyNotJSON == "NOT JSON"
BodyUnreadable == "<read error>"

Methods == {"POST", "DELETE", "GET"}

\* The requests a client may send.
AdminRequests ==
    {[method |-> "POST", id |-> i, body |-> b] : i \in Ids, b \in {BodyPlain, BodyPadded}}
    \cup {[method |-> "POST", id |-> "1", body |-> b] : b \in {BodyNotJSON, BodyUnreadable}}
    \cup {[method |-> "DELETE", id |-> i, body |-> ""] : i \in Ids}
    \cup {[method |-> "GET", id |-> "1", body |-> ""]}

NoRequest == [method |-> "", id |-> "", body |-> ""]

\* Each admin request is served by a goroutine of its own.
Requests == 1..MaxRequests

\* ioutil.ReadAll(r.Body): the bytes read, or an error.
ReadAll(body) ==
    IF body = BodyUnreadable THEN [err |-> TRUE, body |-> ""] ELSE [err |-> FALSE, body |-> body]

\* json.Unmarshal into a json.RawMessage that always succeeds.
jsonUnmarshal_NoCheck(body) == [err |-> FALSE, config |-> body]

\* json.Unmarshal(body, &config) with config a json.RawMessage: an error when
\* the body is no JSON text; otherwise config is the text of the value, which
\* leaves out the white space before and after it.
jsonUnmarshal(body) ==
    CASE body = BodyPlain -> [err |-> FALSE, config |-> "{\"foo\":\"bar\"}"]
      [] body = BodyPadded -> [err |-> FALSE, config |-> "{\"foo\":\"baz\"}"]
      [] OTHER -> [err |-> TRUE, config |-> ""]

\* The status a handler that never calls WriteHeader is answered with.
StatusOK == 200
StatusBadRequest == 400
StatusMethodNotAllowed == 405

NoEvent == [kind |-> "none"]
UpdateEvent(data) == [kind |-> "update", data |-> data]
InvalidateEvent(ids) == [kind |-> "invalidate", ids |-> ids]

\* The Cache interface over a map id -> bytes.
CacheGet(c, ids) == Restrict(c, Range(ids))
CacheUpdate(c, data) == data @@ c
CacheInvalidate(c, ids) == Restrict(c, (DOMAIN c) \ Range(ids))

(***************************************************************************)
(*              THE FETCHER / CACHE COMPOSITION: data                      *)
(***************************************************************************)
\* Stored-request bytes.
Vals == {"a", "b"}

\* All maps from some of the ids to bytes.
StoredMaps == UNION {[K -> Vals] : K \in SUBSET Ids}

\* The id lists a caller may ask for.
IdLists == {<<>>} \cup {<<i>> : i \in Ids} \cup {<<i, j>> : i, j \in Ids}

NoCall == [valid |-> FALSE]

(***************************************************************************)
(*                               STATE                                     *)
(***************************************************************************)
VARIABLES
    disp,           \* HoldAuction's position: "idle", "collect", "returned", "failed"
    cleanRequests,  \* the bidders the cleaner left (keys of cleanRequests)
    liveAdapters,   \* the shuffled list of those bidders (set when it is read)
    requestCur,     \* bidRequest.Cur
    errs,           \* the cleaner's request-level errors
    tpc,            \* per bidder, the goroutine's position
    chBids,         \* the buffered channel, capacity len(cleanRequests)
    nrecv,          \* the collection loop's i
    adapterBids,    \* map bidder -> *pbsOrtbSeatBid
    adapterExtra,   \* map bidder -> *seatResponseExtra
    resp,           \* the BidResponse HoldAuction returned
    deadlineFired,  \* the auction context's deadline has passed
    received,       \* history: per bidder, the results collected from its task
    produced,       \* history: per bidder, the result its task sent normally
    panicked        \* history: the bidders whose task panicked

auctionVars == <<disp, cleanRequests, liveAdapters, requestCur, errs, tpc, chBids, nrecv,
                 adapterBids, adapterExtra, resp, deadlineFired, received, produced, panicked>>

VARIABLES
    hpc,                \* per admin request: "new", "send" (blocked on the channel), "done"
    hreq,               \* per admin request: method, id and body
    hstatus,            \* per admin request: the status code answered (0: none yet)
    hevent,             \* per admin request: the event it is sending
    lpc,                \* the listener goroutine's position
    ldata,              \* the event the listener received
    cache,              \* the cache the listener writes to
    updateCount,        \* eventListener.updateCount
    invalidationCount,  \* eventListener.invalidationCount
    spc,                \* the caller of Stop(): "idle", "calling", "returned"
    stopReceived,       \* history: the listener received the stop signal
    pushedU,            \* history: updates received from the producer
    pushedI,            \* history: invalidations received from the producer
    lastEv              \* history: per id, the last event pushed for it

eventVars == <<hpc, hreq, hstatus, hevent, lpc, ldata, cache, updateCount, invalidationCount,
               spc, stopReceived, pushedU, pushedI, lastEv>>

VARIABLES
    storedReqs,     \* eagerFetcher.storedReqs
    fcache,         \* the cache given to WithCache
    ret,            \* the last FetchRequests call and what it returned
    nops            \* operations performed so far

fetchVars == <<storedReqs, fcache, ret, nops>>

VARIABLES
    call            \* the last call of one of the functions checked on their own

VARIABLES
    layers,         \* the caches handed to Compose and to WithCache, in order
    cret            \* the last operation on the composition and what it returned

composeVars == <<layers, cret>>

VARIABLES
    pgNotify,       \* notifications waiting on the listener's Notify channel
    pgHandled,      \* notifications handleNotifications has taken, in order
    pgUpdates,      \* what has been sent on postgresEvents.updates
    pgInvalidations,\* what has been sent on postgresEvents.invalidations
    pgPinged        \* the idle timer has fired and the connection was pinged

pgVars == <<pgNotify, pgHandled, pgUpdates, pgInvalidations, pgPinged>>

VARIABLES
    disk,           \* the loaded files as they are on disk now
    fileReqs,       \* eagerFetcher.storedReqs of the file fetcher
    fileCache,      \* the cache subscribed to the file fetcher
    wq,             \* watcher.Events: ids of the files written
    nwrites,        \* writes made so far
    wpc,            \* where the watcher goroutine is
    wid,            \* the watcher's id
    wdata,          \* the watcher's fileData
    rpc,            \* where the caller of FetchRequests is
    rids,           \* the ids it asked for
    ri,             \* the index of its loop
    rerrs,          \* its errors
    rsnap,          \* what the returned map held when it was returned
    raced           \* a read and a write of storedReqs have overlapped

fileVars == <<disk, fileReqs, fileCache, wq, nwrites, wpc, wid, wdata, rpc, rids, ri, rerrs,
              rsnap, raced>>

\* The subsystems added to the three above.
backendVars == <<composeVars, pgVars, fileVars>>

vars == <<auctionVars, eventVars, fetchVars, call, backendVars>>

NoResp == [returned |-> FALSE]
EmptyMap == [k \in {} |-> 0]

InitAuction ==
    /\ disp = "idle"
    /\ cleanRequests = {}
    /\ liveAdapters = <<>>
    /\ requestCur = <<>>
    /\ errs = <<>>
    /\ tpc = [b \in Bidders |-> "idle"]
    /\ chBids = <<>>
    /\ nrecv = 0
    /\ adapterBids = EmptyMap
    /\ adapterExtra = EmptyMap
    /\ resp = NoResp
    /\ deadlineFired = FALSE
    /\ received = [b \in Bidders |-> 0]
    /\ produced = EmptyMap
    /\ panicked = {}

(***************************************************************************)
(* The goroutine of one bidder (getAllBids, lines 164-211) wrapped by      *)
(* recoverSafely (lines 224-237).                                          *)
(***************************************************************************)
\* The bidResponseWrapper the inner function builds from the adapter's answer.
bidderRunner(aName, result, cur) ==
    LET v == validateBids(result.bids, cur)
        err == result.err \o v.err
    IN  [bidder |-> aName,
         adapterBids |-> v.seat,
         adapterExtra |-> [ResponseTimeMillis |-> result.elapsed,
                           Errors |-> errsToBidderErrors(err)]]

\* The wrapper recoverSafely sends after a panic: no bidder, no bids, no errors.
recoveredWrapper ==
    [bidder |-> "",
     adapterBids |-> NilSeat,
     adapterExtra |-> [ResponseTimeMillis |-> 0, Errors |-> <<>>]]

\* A message on chBids: the wrapper, and (history) the task that sent it.
Msg(brw, b) == [brw |-> brw, from |-> b]


(***************************************************************************)
(* Response assembly: buildBidResponse, makeSeatBid, makeExtBidResponse.   *)
(***************************************************************************)
\* adapterBids[a] != nil && len(adapterBids[a].bids) > 0 (a missing key reads as nil)
HasBids(ab, a) == a \in DOMAIN ab /\ ~ab[a].nil /\ Len(ab[a].bids) > 0

\* makeSeatBid / makeBid: the openrtb.SeatBid of one bidder.
makeSeatBid(adapterBid, adapter) == [Seat |-> adapter, Bid |-> adapterBid.bids]

\* makeExtBidResponse: the errors and response times of the extension.
makeExtBidResponse(ab, ae, errList) ==
    LET withErrs == {a \in DOMAIN ab : Len(ae[a].Errors) > 0}
        prebid == IF DOMAIN ab # {} /\ Len(errList) > 0 THEN {"prebid"} ELSE {}
    IN  [Errors |-> [a \in withErrs \cup prebid |->
                        IF a \in prebid THEN errsToBidderErrors(errList) ELSE ae[a].Errors],
         ResponseTimeMillis |-> [a \in DOMAIN ab |-> ae[a].ResponseTimeMillis]]

\* buildBidResponse signalling "Invalid Request" whenever no seat has a bid.
buildBidResponse_NBRWhenNoSeat(live, ab, ae, errList) ==
    LET keep == SelectSeq(live, LAMBDA a : HasBids(ab, a))
    IN  [returned |-> TRUE,
         failed |-> FALSE,
         NBR |-> IF Len(keep) = 0 THEN "InvalidRequest" ELSE "",
         SeatBid |-> [i \in 1..Len(keep) |-> makeSeatBid(ab[keep[i]], keep[i])],
         Ext |-> makeExtBidResponse(ab, ae, errList)]

\* buildBidResponse that never sets NBR.
buildBidResponse_NoNBR(live, ab, ae, errList) ==
    LET keep == SelectSeq(live, LAMBDA a : HasBids(ab, a))
    IN  [returned |-> TRUE,
         failed |-> FALSE,
         NBR |-> "",
         SeatBid |-> [i \in 1..Len(keep) |-> makeSeatBid(ab[keep[i]], keep[i])],
         Ext |-> makeExtBidResponse(ab, ae, errList)]

\* buildBidResponse
buildBidResponse(live, ab, ae, errList) ==
    LET keep == SelectSeq(live, LAMBDA a : HasBids(ab, a))
    IN  [returned |-> TRUE,
         failed |-> FALSE,
         NBR |-> IF Len(live) = 0 THEN "InvalidRequest" ELSE "",
         SeatBid |-> [i \in 1..Len(keep) |-> makeSeatBid(ab[keep[i]], keep[i])],
         Ext |-> makeExtBidResponse(ab, ae, errList)]

\* The decode failure answered with an empty response carrying NBR.
ExtDecodeFailure_EmptyResponse ==
    [returned |-> TRUE, failed |-> FALSE, NBR |-> "InvalidRequest", SeatBid |-> <<>>,
     Ext |-> [Errors |-> EmptyMap, ResponseTimeMillis |-> EmptyMap]]

\* What HoldAuction returns when request.ext does not decode: (nil, error).
ExtDecodeFailure ==
    [returned |-> TRUE, failed |-> TRUE, NBR |-> "", SeatBid |-> <<>>,
     Ext |-> [Errors |-> EmptyMap, ResponseTimeMillis |-> EmptyMap]]

(***************************************************************************)
(* HoldAuction up to the dispatch (lines 71-132): the cleaner's output,    *)
(* the decoding of request.ext, and the goroutines started.  The shuffled  *)
(* list liveAdapters (line 94) is read by buildBidResponse alone, so its   *)
(* order is drawn in Return, where it is read.                             *)
(***************************************************************************)
\* randomizeList: any order of the live bidders.
randomizeList(live) == Orderings(live)

\* HoldAuction that starts the adapter goroutines before it decodes request.ext.
HoldAuction_DispatchBeforeDecode ==
    /\ disp = "idle"
    /\ \E live \in SUBSET Bidders, cur \in RequestCurs, ce \in CleanerErrs, extOk \in BOOLEAN :
         /\ cleanRequests' = live
         /\ requestCur' = cur
         /\ errs' = ce
         /\ tpc' = [b \in Bidders |-> IF b \in live THEN "ready" ELSE "idle"]
         /\ IF extOk
            THEN /\ disp' = "collect"
                 /\ resp' = resp
            ELSE /\ disp' = "failed"
                 /\ resp' = ExtDecodeFailure
    /\ UNCHANGED <<eventVars, fetchVars, call, backendVars>>
    /\ UNCHANGED <<liveAdapters, chBids, nrecv, adapterBids, adapterExtra, deadlineFired,
                   received, produced, panicked>>

HoldAuction ==
    /\ disp = "idle"
    /\ \E live \in SUBSET Bidders, cur \in RequestCurs, ce \in CleanerErrs, extOk \in BOOLEAN :
         /\ cleanRequests' = live
         /\ requestCur' = cur
         /\ errs' = ce
         /\ IF extOk
            THEN /\ disp' = "collect"
                 /\ tpc' = [b \in Bidders |-> IF b \in live THEN "ready" ELSE "idle"]
                 /\ resp' = resp
            ELSE /\ disp' = "failed"
                 /\ resp' = ExtDecodeFailure
                 /\ tpc' = tpc
    /\ UNCHANGED <<eventVars, fetchVars, call, backendVars>>
    /\ UNCHANGED <<liveAdapters, chBids, nrecv, adapterBids, adapterExtra, deadlineFired,
                   received, produced, panicked>>

\* The context's deadline passes while the dispatcher is collecting.  An
\* adapter that honours the context has returned from requestBid by then.
DeadlineFires ==
    /\ disp = "collect"
    /\ ~deadlineFired
    /\ \A b \in Bidders : tpc[b] # "ready"
    /\ deadlineFired' = TRUE
    /\ UNCHANGED <<eventVars, fetchVars, call, backendVars>>
    /\ UNCHANGED <<disp, cleanRequests, liveAdapters, requestCur, errs, tpc, chBids, nrecv,
                   adapterBids, adapterExtra, resp, received, produced, panicked>>

\* chBids has room: a send on the buffered channel does not block.
CanSend == Len(chBids) < Cardinality(cleanRequests)

\* The task runs to its send (lines 166-210); then the deferred
\* RecordAdapterRequest (lines 173-175) returns or panics.
TaskSend(b) ==
    /\ tpc[b] = "ready"
    /\ CanSend
    /\ \E result \in AdapterResults, deferredPanics \in BOOLEAN :
         LET brw == bidderRunner(b, result, requestCur)
         IN  /\ chBids' = Append(chBids, Msg(brw, b))
             /\ produced' = (b :> brw) @@ produced
             /\ tpc' = [tpc EXCEPT ![b] = IF deferredPanics THEN "recover" ELSE "done"]
             /\ panicked' = IF deferredPanics THEN panicked \cup {b} ELSE panicked
    /\ UNCHANGED <<eventVars, fetchVars, call, backendVars>>
    /\ UNCHANGED <<disp, cleanRequests, liveAdapters, requestCur, errs, nrecv,
                   adapterBids, adapterExtra, resp, deadlineFired, received>>

\* The task panics before its send: nil labels (line 166), the adapter,
\* validation or a metrics call.
TaskPanic(b) ==
    /\ tpc[b] = "ready"
    /\ tpc' = [tpc EXCEPT ![b] = "recover"]
    /\ panicked' = panicked \cup {b}
    /\ UNCHANGED <<eventVars, fetchVars, call, backendVars>>
    /\ UNCHANGED <<disp, cleanRequests, liveAdapters, requestCur, errs, chBids, nrecv,
                   adapterBids, adapterExtra, resp, deadlineFired, received, produced>>

\* recoverSafely's deferred function (lines 226-234) sends an empty wrapper.
TaskRecover(b) ==
    /\ tpc[b] = "recover"
    /\ CanSend
    /\ chBids' = Append(chBids, Msg(recoveredWrapper, b))
    /\ tpc' = [tpc EXCEPT ![b] = "done"]
    /\ UNCHANGED <<eventVars, fetchVars, call, backendVars>>
    /\ UNCHANGED <<disp, cleanRequests, liveAdapters, requestCur, errs, nrecv,
                   adapterBids, adapterExtra, resp, deadlineFired, received, produced, panicked>>

\* The adapter never returns from requestBid (it ignores the context).
TaskHang(b) ==
    /\ tpc[b] = "ready"
    /\ tpc' = [tpc EXCEPT ![b] = "hung"]
    /\ UNCHANGED <<eventVars, fetchVars, call, backendVars>>
    /\ UNCHANGED <<disp, cleanRequests, liveAdapters, requestCur, errs, chBids, nrecv,
                   adapterBids, adapterExtra, resp, deadlineFired, received, produced, panicked>>

\* One round of the collection loop (lines 215-219).
Collect ==
    /\ disp = "collect"
    /\ nrecv < Cardinality(cleanRequests)
    /\ Len(chBids) > 0
    /\ LET brw == Head(chBids).brw
       IN  /\ adapterBids' = (brw.bidder :> brw.adapterBids) @@ adapterBids
           /\ adapterExtra' = (brw.bidder :> brw.adapterExtra) @@ adapterExtra
    /\ received' = [received EXCEPT ![Head(chBids).from] = @ + 1]
    /\ chBids' = Tail(chBids)
    /\ nrecv' = nrecv + 1
    /\ UNCHANGED <<eventVars, fetchVars, call, backendVars>>
    /\ UNCHANGED <<disp, cleanRequests, liveAdapters, requestCur, errs, tpc, resp,
                   deadlineFired, produced, panicked>>

\* getAllBids returns and HoldAuction builds the response (lines 221, 133-140).
Return ==
    /\ disp = "collect"
    /\ nrecv = Cardinality(cleanRequests)
    /\ disp' = "returned"
    /\ \E order \in randomizeList(cleanRequests) :
         /\ liveAdapters' = order
         /\ resp' = buildBidResponse(order, adapterBids, adapterExtra, errs)
    /\ UNCHANGED <<eventVars, fetchVars, call, backendVars>>
    /\ UNCHANGED <<cleanRequests, requestCur, errs, tpc, chBids, nrecv,
                   adapterBids, adapterExtra, deadlineFired, received, produced, panicked>>

NextAuction ==
    \/ HoldAuction
    \/ DeadlineFires
    \/ \E b \in Bidders : TaskSend(b)
    \/ \E b \in Bidders : TaskPanic(b)
    \/ \E b \in Bidders : TaskRecover(b)
    \/ \E b \in Bidders : TaskHang(b)
    \/ Collect
    \/ Return



(***************************************************************************)
(*        THE EVENT LISTENER AND THE ADMIN HTTP PRODUCER: actions          *)
(***************************************************************************)
InitEvents ==
    /\ hpc = [r \in Requests |-> "new"]
    /\ hreq = [r \in Requests |-> NoRequest]
    /\ hstatus = [r \in Requests |-> 0]
    /\ hevent = [r \in Requests |-> NoEvent]
    /\ lpc = "select"
    /\ ldata = NoEvent
    /\ cache = EmptyMap
    /\ updateCount = 0
    /\ invalidationCount = 0
    /\ spc = "idle"
    /\ stopReceived = FALSE
    /\ pushedU = 0
    /\ pushedI = 0
    /\ lastEv = [i \in Ids |-> NoEvent]

\* HandleEvent over channels with a buffer: the send does not wait for a
\* receiver and the handler returns at once.
HandleEvent_Buffered(r) ==
    /\ hpc[r] = "new"
    /\ \A q \in Requests : q < r => hpc[q] # "new"
    /\ \E rq \in AdminRequests :
         /\ hreq' = [hreq EXCEPT ![r] = rq]
         /\ hpc' = [hpc EXCEPT ![r] = "done"]
         /\ IF rq.method = "POST"
            THEN LET read == ReadAll(rq.body)
                     parsed == jsonUnmarshal(read.body)
                 IN  IF read.err \/ parsed.err
                     THEN /\ hstatus' = [hstatus EXCEPT ![r] = StatusBadRequest]
                          /\ hevent' = hevent
                     ELSE /\ hevent' = [hevent EXCEPT
                                          ![r] = UpdateEvent(rq.id :> parsed.config)]
                          /\ hstatus' = [hstatus EXCEPT ![r] = StatusOK]
            ELSE IF rq.method = "DELETE"
            THEN /\ hevent' = [hevent EXCEPT ![r] = InvalidateEvent(<<rq.id>>)]
                 /\ hstatus' = [hstatus EXCEPT ![r] = StatusOK]
            ELSE /\ hstatus' = [hstatus EXCEPT ![r] = StatusOK]
                 /\ hevent' = hevent
    /\ UNCHANGED <<lpc, ldata, cache, updateCount, invalidationCount, spc, stopReceived,
                   pushedU, pushedI, lastEv>>
    /\ UNCHANGED <<auctionVars, fetchVars, call, backendVars>>

\* eventsAPI.HandleEvent up to its channel send or its return.  Requests
\* arrive in the order of their numbers.
HandleEvent(r) ==
    /\ hpc[r] = "new"
    /\ \A q \in Requests : q < r => hpc[q] # "new"
    /\ \E rq \in AdminRequests :
         /\ hreq' = [hreq EXCEPT ![r] = rq]
         /\ IF rq.method = "POST"
            THEN LET read == ReadAll(rq.body)
                     parsed == jsonUnmarshal(read.body)
                 IN  IF read.err \/ parsed.err
                     THEN /\ hstatus' = [hstatus EXCEPT ![r] = StatusBadRequest]
                          /\ hpc' = [hpc EXCEPT ![r] = "done"]
                          /\ hevent' = hevent
                     ELSE /\ hevent' = [hevent EXCEPT
                                          ![r] = UpdateEvent(rq.id :> parsed.config)]
                          /\ hpc' = [hpc EXCEPT ![r] = "send"]
                          /\ hstatus' = hstatus
            ELSE IF rq.method = "DELETE"
            THEN /\ hevent' = [hevent EXCEPT ![r] = InvalidateEvent(<<rq.id>>)]
                 /\ hpc' = [hpc EXCEPT ![r] = "send"]
                 /\ hstatus' = hstatus
            ELSE /\ hstatus' = [hstatus EXCEPT ![r] = StatusOK]
                 /\ hpc' = [hpc EXCEPT ![r] = "done"]
                 /\ hevent' = hevent
    /\ UNCHANGED <<lpc, ldata, cache, updateCount, invalidationCount, spc, stopReceived,
                   pushedU, pushedI, lastEv>>
    /\ UNCHANGED <<auctionVars, fetchVars, call, backendVars>>

\* The listener that counts an update when it receives it, before applying it.
ListenerRecvUpdate_CountsOnReceipt(r) ==
    /\ lpc = "select"
    /\ hpc[r] = "send"
    /\ hevent[r].kind = "update"
    /\ lpc' = "update"
    /\ ldata' = hevent[r]
    /\ hpc' = [hpc EXCEPT ![r] = "done"]
    /\ hstatus' = [hstatus EXCEPT ![r] = StatusOK]
    /\ pushedU' = pushedU + 1
    /\ updateCount' = updateCount + 1
    /\ lastEv' = [lastEv EXCEPT ![hreq[r].id] =
                    [kind |-> "update", val |-> hevent[r].data[hreq[r].id], body |-> hreq[r].body]]
    /\ UNCHANGED <<hreq, hevent, cache, invalidationCount, spc, stopReceived, pushedI>>
    /\ UNCHANGED <<auctionVars, fetchVars, call, backendVars>>

\* case data := <-events.Updates(): the handler's send on the unbuffered
\* channel completes, and the handler returns without writing a status.
ListenerRecvUpdate(r) ==
    /\ lpc = "select"
    /\ hpc[r] = "send"
    /\ hevent[r].kind = "update"
    /\ lpc' = "update"
    /\ ldata' = hevent[r]
    /\ hpc' = [hpc EXCEPT ![r] = "done"]
    /\ hstatus' = [hstatus EXCEPT ![r] = StatusOK]
    /\ pushedU' = pushedU + 1
    /\ lastEv' = [lastEv EXCEPT ![hreq[r].id] =
                    [kind |-> "update", val |-> hevent[r].data[hreq[r].id], body |-> hreq[r].body]]
    /\ UNCHANGED <<hreq, hevent, cache, updateCount, invalidationCount, spc, stopReceived, pushedI>>
    /\ UNCHANGED <<auctionVars, fetchVars, call, backendVars>>

\* case ids := <-events.Invalidations()
ListenerRecvInvalidate(r) ==
    /\ lpc = "select"
    /\ hpc[r] = "send"
    /\ hevent[r].kind = "invalidate"
    /\ lpc' = "invalidate"
    /\ ldata' = hevent[r]
    /\ hpc' = [hpc EXCEPT ![r] = "done"]
    /\ hstatus' = [hstatus EXCEPT ![r] = StatusOK]
    /\ pushedI' = pushedI + 1
    /\ lastEv' = [lastEv EXCEPT ![hreq[r].id] = [kind |-> "invalidate"]]
    /\ UNCHANGED <<hreq, hevent, cache, updateCount, invalidationCount, spc, stopReceived, pushedU>>
    /\ UNCHANGED <<auctionVars, fetchVars, call, backendVars>>

\* cache.Update(context.Background(), data) with the update dropped.
ListenerApplyUpdate_Dropped ==
    /\ lpc = "update"
    /\ lpc' = "countUpdate"
    /\ UNCHANGED <<hpc, hreq, hstatus, hevent, ldata, cache, updateCount, invalidationCount, spc,
                   stopReceived, pushedU, pushedI, lastEv>>
    /\ UNCHANGED <<auctionVars, fetchVars, call, backendVars>>

\* cache.Update(context.Background(), data)
ListenerApplyUpdate ==
    /\ lpc = "update"
    /\ cache' = CacheUpdate(cache, ldata.data)
    /\ lpc' = "countUpdate"
    /\ UNCHANGED <<hpc, hreq, hstatus, hevent, ldata, updateCount, invalidationCount, spc,
                   stopReceived, pushedU, pushedI, lastEv>>
    /\ UNCHANGED <<auctionVars, fetchVars, call, backendVars>>

\* listener.updateCount++
ListenerCountUpdate ==
    /\ lpc = "countUpdate"
    /\ updateCount' = updateCount + 1
    /\ lpc' = "select"
    /\ ldata' = NoEvent
    /\ UNCHANGED <<hpc, hreq, hstatus, hevent, cache, invalidationCount, spc,
                   stopReceived, pushedU, pushedI, lastEv>>
    /\ UNCHANGED <<auctionVars, fetchVars, call, backendVars>>

\* cache.Invalidate(context.Background(), ids) with the invalidation dropped.
ListenerApplyInvalidate_Dropped ==
    /\ lpc = "invalidate"
    /\ lpc' = "countInvalidate"
    /\ UNCHANGED <<hpc, hreq, hstatus, hevent, ldata, cache, updateCount, invalidationCount, spc,
                   stopReceived, pushedU, pushedI, lastEv>>
    /\ UNCHANGED <<auctionVars, fetchVars, call, backendVars>>

\* cache.Invalidate(context.Background(), ids)
ListenerApplyInvalidate ==
    /\ lpc = "invalidate"
    /\ cache' = CacheInvalidate(cache, ldata.ids)
    /\ lpc' = "countInvalidate"
    /\ UNCHANGED <<hpc, hreq, hstatus, hevent, ldata, updateCount, invalidationCount, spc,
                   stopReceived, pushedU, pushedI, lastEv>>
    /\ UNCHANGED <<auctionVars, fetchVars, call, backendVars>>

\* listener.invalidationCount++
ListenerCountInvalidate ==
    /\ lpc = "countInvalidate"
    /\ invalidationCount' = invalidationCount + 1
    /\ lpc' = "select"
    /\ ldata' = NoEvent
    /\ UNCHANGED <<hpc, hreq, hstatus, hevent, cache, updateCount, spc,
                   stopReceived, pushedU, pushedI, lastEv>>
    /\ UNCHANGED <<auctionVars, fetchVars, call, backendVars>>

\* eventListener.Stop(): the caller blocks on the send to listener.stop.
StopCall ==
    /\ spc = "idle"
    /\ spc' = "calling"
    /\ UNCHANGED <<hpc, hreq, hstatus, hevent, lpc, ldata, cache, updateCount, invalidationCount,
                   stopReceived, pushedU, pushedI, lastEv>>
    /\ UNCHANGED <<auctionVars, fetchVars, call, backendVars>>

\* case <-listener.stop: break.  The break leaves the select statement, not
\* the for loop around it: the listener is back at the select.
ListenerRecvStop ==
    /\ lpc = "select"
    /\ spc = "calling"
    /\ spc' = "returned"
    /\ stopReceived' = TRUE
    /\ lpc' = "select"
    /\ UNCHANGED <<hpc, hreq, hstatus, hevent, ldata, cache, updateCount, invalidationCount,
                   pushedU, pushedI, lastEv>>
    /\ UNCHANGED <<auctionVars, fetchVars, call, backendVars>>

\* eventListener.UpdateCount() and InvalidationCount() (lines 30-36) called
\* from another goroutine: the value method copies the listener without
\* synchronisation, and reads the counter as this or an earlier increment
\* left it.
UpdateCountReads == 0..updateCount
InvalidationCountReads == 0..invalidationCount

NextEvents ==
    \/ \E r \in Requests : HandleEvent(r)
    \/ \E r \in Requests : ListenerRecvUpdate(r)
    \/ \E r \in Requests : ListenerRecvInvalidate(r)
    \/ ListenerApplyUpdate
    \/ ListenerCountUpdate
    \/ ListenerApplyInvalidate
    \/ ListenerCountInvalidate
    \/ StopCall
    \/ ListenerRecvStop


(***************************************************************************)
(*            THE FETCHER / CACHE COMPOSITION: actions                     *)
(***************************************************************************)
\* The files loaded at start-up are drawn from the set stores.
FetchStart(stores) ==
    /\ storedReqs \in stores
    /\ fcache = EmptyMap
    /\ ret = NoCall
    /\ nops = 0

NotFoundError(id) == [code |-> "", msg |-> "No config found for id", id |-> id]

\* eagerFetcher.FetchRequests: the whole map, and an error per unknown id.
eagerFetch(stored, ids) ==
    LET missing == SelectSeq(ids, LAMBDA id : id \notin DOMAIN stored)
    IN  [data |-> stored, errs |-> [i \in 1..Len(missing) |-> NotFoundError(missing[i])]]

\* fetcherWithCache.FetchRequests over the cache c and an eagerFetcher
\* holding stored: what it returns, the cache afterwards, and the ids it
\* asked the underlying fetcher for.
withCacheFetch(c, stored, ids) ==
    LET data == CacheGet(c, ids)
        missingIds == SelectSeq(ids, LAMBDA id : id \notin DOMAIN data)
        under == eagerFetch(stored, missingIds)
    IN  [data |-> under.data @@ data,
         errs |-> under.errs,
         cache |-> CacheUpdate(c, data),
         asked |-> missingIds]

FetchRequests(ids) ==
    /\ nops < MaxOps
    /\ LET r == withCacheFetch(fcache, storedReqs, ids)
       IN  /\ fcache' = r.cache
           /\ ret' = [valid |-> TRUE, ids |-> ids, data |-> r.data, errs |-> r.errs,
                      asked |-> r.asked, cacheBefore |-> fcache]
    /\ nops' = nops + 1
    /\ UNCHANGED storedReqs
    /\ UNCHANGED <<auctionVars, eventVars, call, backendVars>>

\* Cache.Update called on the cache by an event listener.
CacheUpdateOp(data) ==
    /\ nops < MaxOps
    /\ fcache' = CacheUpdate(fcache, data)
    /\ ret' = NoCall
    /\ nops' = nops + 1
    /\ UNCHANGED storedReqs
    /\ UNCHANGED <<auctionVars, eventVars, call, backendVars>>

\* Cache.Invalidate called on the cache by an event listener.
CacheInvalidateOp(ids) ==
    /\ nops < MaxOps
    /\ fcache' = CacheInvalidate(fcache, ids)
    /\ ret' = NoCall
    /\ nops' = nops + 1
    /\ UNCHANGED storedReqs
    /\ UNCHANGED <<auctionVars, eventVars, call, backendVars>>

NextFetch ==
    \/ \E ids \in IdLists : FetchRequests(ids)
    \/ \E data \in StoredMaps \ {EmptyMap} : CacheUpdateOp(data)
    \/ \E ids \in IdLists \ {<<>>} : CacheInvalidateOp(ids)

(***************************************************************************)
(*     FUNCTIONS CHECKED ON THEIR OWN: validateBids, validateCurrency,     *)
(*     makeAuctionContext and HoldAuction's use of the two contexts        *)
(***************************************************************************)
\* Longest bid list handed to validateBids.
MaxBids == 3

\* Latest deadline of the incoming context, and longest cacheTime
\* (cfg.CacheURL.ExpectedTimeMillis), in milliseconds.
MaxDeadline == 3
MaxCacheTime == 2

\* A second valid bid, to tell the order of the valid bids.
GoodBid2 == [GoodBid EXCEPT !.ID = "b", !.Price = 1]

CallBids == BidSamples \cup {GoodBid2}
BidLists == UNION {[1..n -> CallBids] : n \in 0..MaxBids}

\* Seat currencies and request allow-lists, in both letter cases and with a
\* code currency.ParseISO does not know.
CallCurrencies == {"", "usd", "USD", "EUR", "ZZZ"}
CurLists == {<<>>, <<"USD">>, <<"eur">>, <<"ZZZ">>, <<"EUR", "usd">>}

CallSeats == {NilSeat} \cup {Seat(bids, cur) : bids \in BidLists, cur \in CallCurrencies}

\* A context.Context as far as its deadline goes.
NoDeadline == [has |-> FALSE, at |-> 0]
Deadline(d) == [has |-> TRUE, at |-> d]
Contexts == {NoDeadline} \cup {Deadline(d) : d \in 1..MaxDeadline}
CacheTimes == 0..MaxCacheTime

\* context.WithDeadline(parent, d): the earlier of d and the parent's deadline.
WithDeadline(parent, d) ==
    IF parent.has /\ parent.at < d THEN parent ELSE Deadline(d)

\* makeAuctionContext that leaves the deadline as it is.
makeAuctionContext_Unreduced(ctx, needsCache, cacheTime) == ctx

\* makeAuctionContext: the context the adapters run under.
makeAuctionContext(ctx, needsCache, cacheTime) ==
    IF needsCache /\ ctx.has THEN WithDeadline(ctx, ctx.at - cacheTime) ELSE ctx

\* request.ext.prebid as HoldAuction reads it (lines 100-125): cache present,
\* cache.bids present, cache.vastxml present, targeting present.
RequestExts == [cache : BOOLEAN, bids : BOOLEAN, vast : BOOLEAN, targeting : BOOLEAN]

NotCalled == [called |-> FALSE, ctx |-> NoDeadline, bids |-> FALSE, vast |-> FALSE]

\* HoldAuction, lines 96-138: the context handed to getAllBids, and the call
\* of auc.doCache, made when targeting is present, with its context and flags.
auctionContexts(ctx, ext, cacheTime) ==
    LET shouldCacheBids == ext.cache /\ ext.bids
        shouldCacheVAST == ext.cache /\ ext.vast
    IN  [auctionCtx |-> makeAuctionContext(ctx, shouldCacheBids, cacheTime),
         doCache |-> IF ext.targeting
                     THEN [called |-> TRUE, ctx |-> ctx,
                           bids |-> shouldCacheBids, vast |-> shouldCacheVAST]
                     ELSE NotCalled]

validateBidsCall ==
    /\ ~call.valid
    /\ \E seat \in CallSeats, cur \in CurLists :
         call' = [valid |-> TRUE, fn |-> "validateBids", seat |-> seat, cur |-> cur,
                  out |-> validateBids(seat, cur)]
    /\ UNCHANGED <<auctionVars, eventVars, fetchVars, backendVars>>

validateCurrencyCall ==
    /\ ~call.valid
    /\ \E bidCurrency \in CallCurrencies, cur \in CurLists :
         call' = [valid |-> TRUE, fn |-> "validateCurrency", bidCurrency |-> bidCurrency,
                  cur |-> cur, out |-> validateCurrency(cur, bidCurrency)]
    /\ UNCHANGED <<auctionVars, eventVars, fetchVars, backendVars>>

auctionContextsCall ==
    /\ ~call.valid
    /\ \E ctx \in Contexts, ext \in RequestExts, cacheTime \in CacheTimes :
         call' = [valid |-> TRUE, fn |-> "auctionContexts", ctx |-> ctx, ext |-> ext,
                  cacheTime |-> cacheTime, out |-> auctionContexts(ctx, ext, cacheTime)]
    /\ UNCHANGED <<auctionVars, eventVars, fetchVars, backendVars>>

(***************************************************************************)
(* Adapters: BrightrollAdapter.MakeBids and OpenxAdapter.MakeBids.         *)
(***************************************************************************)
StatusNoContent == 204

\* HTTP statuses a bidder's server may answer with.
Statuses == {StatusOK, StatusNoContent, StatusBadRequest, 302, 404, 500}

\* The impressions of the request handed to MakeBids: a banner, a video and
\* one with both.
RequestImps ==
    <<[ID |-> "1", Banner |-> TRUE, Video |-> FALSE],
      [ID |-> "2", Banner |-> FALSE, Video |-> TRUE],
      [ID |-> "3", Banner |-> TRUE, Video |-> TRUE]>>

\* A response body: whether json.Unmarshal accepts it, and its seat bids,
\* each a list of bids known by their ImpID.
NotJSONBody == [parses |-> FALSE, SeatBid |-> <<>>]
JSONBody(seats) == [parses |-> TRUE, SeatBid |-> seats]

ResponseBodies ==
    {NotJSONBody, JSONBody(<<>>), JSONBody(<<<<"1">>>>), JSONBody(<<<<"2", "3">>, <<"9">>>>)}

Responses == [StatusCode : Statuses, Body : ResponseBodies]

NoBidderResponse == [nil |-> TRUE, Bids |-> <<>>]

MakeBidsResult(bidderResponse, errList) ==
    [panic |-> FALSE, response |-> bidderResponse, errs |-> errList]
MakeBidsPanic == [panic |-> TRUE, response |-> NoBidderResponse, errs |-> <<>>]

\* Brightroll's getMediaTypeForImp (part_000, lines 165-176): the first
\* impression with the bid's ImpID decides; video when it has a video.
RECURSIVE brightrollMediaType(_, _, _)
brightrollMediaType(impId, imps, i) ==
    IF i > Len(imps) THEN "banner"
    ELSE IF imps[i].ID = impId
         THEN (IF imps[i].Video THEN "video" ELSE "banner")
         ELSE brightrollMediaType(impId, imps, i + 1)

\* OpenX's getMediaTypeForImp (lines 377-388): video only without a banner.
RECURSIVE openxMediaType(_, _, _)
openxMediaType(impId, imps, i) ==
    IF i > Len(imps) THEN "banner"
    ELSE IF imps[i].ID = impId
         THEN (IF ~imps[i].Banner /\ imps[i].Video THEN "video" ELSE "banner")
         ELSE openxMediaType(impId, imps, i + 1)

RECURSIVE Flatten(_)
Flatten(seqs) == IF seqs = <<>> THEN <<>> ELSE Head(seqs) \o Flatten(Tail(seqs))

\* BrightrollAdapter.MakeBids.  After a status 200 it reads SeatBid[0].
BrightrollMakeBids(imps, response) ==
    IF response.StatusCode = StatusNoContent THEN MakeBidsResult(NoBidderResponse, <<>>)
    ELSE IF response.StatusCode = StatusBadRequest
    THEN MakeBidsResult(NoBidderResponse, <<CodedError("BadInput", "Unexpected status code")>>)
    ELSE IF response.StatusCode # StatusOK
    THEN MakeBidsResult(NoBidderResponse,
                        <<CodedError("BadServerResponse", "unexpected status code")>>)
    ELSE IF ~response.Body.parses
    THEN MakeBidsResult(NoBidderResponse,
                        <<CodedError("BadServerResponse", "bad server response")>>)
    ELSE IF Len(response.Body.SeatBid) = 0 THEN MakeBidsPanic
    ELSE LET sb == response.Body.SeatBid[1]
         IN  MakeBidsResult([nil |-> FALSE,
                             Bids |-> [i \in 1..Len(sb) |->
                                         [ImpID |-> sb[i],
                                          BidType |-> brightrollMediaType(sb[i], imps, 1)]]],
                            <<>>)

\* OpenxAdapter.MakeBids that reports a status 400 as a server error.
OpenxMakeBids_400IsServerError(imps, response) ==
    IF response.StatusCode = StatusNoContent THEN MakeBidsResult(NoBidderResponse, <<>>)
    ELSE MakeBidsResult(NoBidderResponse,
                        <<CodedError("BadServerResponse", "Unexpected status code")>>)

\* OpenxAdapter.MakeBids.  After a status 200 it takes the bids of every seat;
\* an unmarshalling error is returned as it is, without an errortypes code.
OpenxMakeBids(imps, response) ==
    IF response.StatusCode = StatusNoContent THEN MakeBidsResult(NoBidderResponse, <<>>)
    ELSE IF response.StatusCode = StatusBadRequest
    THEN MakeBidsResult(NoBidderResponse, <<CodedError("BadInput", "Unexpected status code")>>)
    ELSE IF response.StatusCode # StatusOK
    THEN MakeBidsResult(NoBidderResponse,
                        <<CodedError("BadServerResponse", "Unexpected status code")>>)
    ELSE IF ~response.Body.parses
    THEN MakeBidsResult(NoBidderResponse, <<PlainError("json: cannot unmarshal")>>)
    ELSE LET all == Flatten(response.Body.SeatBid)
         IN  MakeBidsResult([nil |-> FALSE,
                             Bids |-> [i \in 1..Len(all) |->
                                         [ImpID |-> all[i],
                                          BidType |-> openxMediaType(all[i], imps, 1)]]],
                            <<>>)

AdapterNames == {"brightroll", "openx"}

MakeBids(adapter, imps, response) ==
    IF adapter = "brightroll" THEN BrightrollMakeBids(imps, response)
    ELSE OpenxMakeBids(imps, response)

(***************************************************************************)
(* Metrics: prometheusmetrics.NewMetrics, initializeTimeSeries and the     *)
(* Record functions.  A vector is its label names and the label sets of    *)
(* the series it holds.                                                    *)
(***************************************************************************)
\* The valid values of each label, as the ...AsString functions list them.
LabelValues ==
    [ErrorType |-> <<"accept_error", "close_error">>,
     demand_source |-> <<"web", "app">>,
     request_type |-> <<"openrtb2", "amp">>,
     browser |-> <<"safari", "other">>,
     cookie |-> <<"exists", "no">>,
     response_status |-> <<"ok", "err">>,
     adapter |-> <<"brightroll", "openx">>,
     adapter_bid |-> <<"bid", "nobid">>,
     adapter_error |-> <<"timeout", "badinput">>,
     bidtype |-> <<"banner", "video">>,
     markup_type |-> <<"unknown", "adm">>,
     action |-> <<"add", "gdpr">>,
     bidder |-> <<"brightroll", "openx">>]

standardLabelNames == {"demand_source", "request_type", "browser", "cookie", "response_status"}
adapterLabelNames ==
    {"demand_source", "request_type", "browser", "cookie", "adapter_bid", "adapter"}
bidLabelNames == adapterLabelNames \cup {"bidtype", "markup_type"}
errorLabelNames ==
    {"demand_source", "request_type", "browser", "cookie", "adapter_error", "adapter"}

\* The label names each vector is created with (NewMetrics, lines 47-98).
VectorLabelNames ==
    [connError |-> {"ErrorType"},
     imps |-> standardLabelNames,
     requests |-> standardLabelNames,
     reqTimer |-> standardLabelNames,
     adaptRequests |-> adapterLabelNames,
     adaptTimer |-> adapterLabelNames,
     adaptBids |-> bidLabelNames,
     adaptPrices |-> adapterLabelNames,
     adaptErrors |-> errorLabelNames,
     userID |-> {"action", "bidder"}]

Vectors == DOMAIN VectorLabelNames

\* addToLabel: one copy of label per value, with field set to the value.
addToLabel(label, field, values) ==
    [i \in 1..Len(values) |-> (field :> values[i]) @@ label]

\* addDimension: the lists addToLabel makes of each label, one after the
\* other; entry k comes from label (k-1) \div Len(values) + 1.
addDimension(labels, field, values) ==
    IF Len(labels) = 0 THEN addToLabel(EmptyMap, field, values)
    ELSE [k \in 1..(Len(labels) * Len(values)) |->
            addToLabel(labels[((k - 1) \div Len(values)) + 1], field, values)
                [((k - 1) % Len(values)) + 1]]

dim(labels, field) == addDimension(labels, field, LabelValues[field])

\* initializeTimeSeries: the label sets handed to With, vector by vector.
\* With panics on a label set whose names are not the vector's; there is no
\* such call here, and no call at all on userID.
initializeTimeSeries ==
    LET connLabels == dim(<<>>, "ErrorType")
        adapterLabels == dim(dim(dim(dim(<<>>, "demand_source"), "request_type"),
                                 "browser"), "cookie")
        standard == dim(adapterLabels, "response_status")
        errorLabels == dim(adapterLabels, "adapter")
        adapter == dim(errorLabels, "adapter_bid")
        bids == dim(dim(adapter, "bidtype"), "markup_type")
        errors == dim(errorLabels, "adapter_error")
    IN  [connError |-> Range(connLabels),
         imps |-> Range(standard),
         requests |-> Range(standard),
         reqTimer |-> Range(standard),
         adaptRequests |-> Range(adapter),
         adaptTimer |-> Range(adapter),
         adaptBids |-> Range(bids),
         adaptPrices |-> Range(adapter),
         adaptErrors |-> Range(errors),
         userID |-> {}]

\* NewMetrics: every vector with its label names and its series.
NewMetrics ==
    [v \in Vectors |-> [names |-> VectorLabelNames[v], series |-> initializeTimeSeries[v]]]

\* Every assignment of valid values to the label names.
RECURSIVE LabelProduct(_)
LabelProduct(names) ==
    IF names = {} THEN {EmptyMap}
    ELSE LET f == CHOOSE n \in names : TRUE
         IN  {(f :> x) @@ l : x \in Range(LabelValues[f]), l \in LabelProduct(names \ {f})}

\* The label sets the Record functions hand to each vector (resolveLabels,
\* resolveAdapterLabels, resolveBidLabels, resolveAdapterErrorLabels,
\* resolveUserSyncLabels, WithLabelValues), for labels with valid values.
RecordLabels == [v \in Vectors |-> LabelProduct(VectorLabelNames[v])]

makeBidsCall ==
    /\ ~call.valid
    /\ \E adapter \in AdapterNames, response \in Responses :
         call' = [valid |-> TRUE, fn |-> "MakeBids", adapter |-> adapter,
                  response |-> response, out |-> MakeBids(adapter, RequestImps, response)]
    /\ UNCHANGED <<auctionVars, eventVars, fetchVars, backendVars>>

\* One Record call on the metrics NewMetrics has returned.
recordCall ==
    /\ ~call.valid
    /\ \E v \in Vectors :
         \E l \in RecordLabels[v] :
            call' = [valid |-> TRUE, fn |-> "Record", vector |-> v, labels |-> l,
                     names |-> NewMetrics[v].names, series |-> NewMetrics[v].series,
                     created |-> l \notin NewMetrics[v].series]
    /\ UNCHANGED <<auctionVars, eventVars, fetchVars, backendVars>>

(***************************************************************************)
(* getAllBids: the metrics-label record handed to each adapter goroutine.  *)
(***************************************************************************)
\* The names request.ext.prebid.aliases may declare.
AliasNames == {"p", "q"}

\* The alias maps of a request: each declared alias names its core bidder.
AliasMaps == UNION {[names -> Bidders] : names \in SUBSET AliasNames}

\* resolveBidder: the core bidder an alias stands for, or the name itself.
resolveBidder(bidderName, aliases) ==
    IF bidderName \in DOMAIN aliases THEN aliases[bidderName] ELSE bidderName

\* The loop of lines 161-212: the goroutine of each name of the
\* cleaned-request map is handed the record blabels[coreBidder], which it
\* writes AdapterBids and AdapterErrors to (lines 196-197).  A record is
\* named by its key in blabels.
labelRecords(names, aliases) ==
    [bidderName \in names |-> resolveBidder(bidderName, aliases)]

labelRecordsCall ==
    /\ ~call.valid
    /\ \E aliases \in AliasMaps :
         \E names \in SUBSET (Bidders \cup DOMAIN aliases) :
            call' = [valid |-> TRUE, fn |-> "getAllBids", names |-> names,
                     aliases |-> aliases, out |-> labelRecords(names, aliases)]
    /\ UNCHANGED <<auctionVars, eventVars, fetchVars, backendVars>>

(***************************************************************************)
(* OpenxAdapter.MakeRequests (part_000, lines 213-335).                    *)
(***************************************************************************)
\* Impressions in one request handed to MakeRequests.
MaxImps == 3

ImpIds == <<"1", "2", "3", "4", "5">>

\* imp.Ext as it reaches the adapter: OpenX parameters, the same with
\* customParams, or bytes that do not decode into them.
ExtOpenx == "openx"
ExtOpenxCustom == "openx+customParams"
ExtMalformed == "malformed"
\* imp.Ext as preprocess leaves it: nil, or the marshalled customParams.
NilExt == "nil"
ImpExtCustom == "customParams"

ImpKinds == [Banner : BOOLEAN, Video : BOOLEAN, Ext : {ExtOpenx, ExtOpenxCustom, ExtMalformed}]

MakeImp(id, kind) == [ID |-> id, Banner |-> kind.Banner, Video |-> kind.Video, Ext |-> kind.Ext]

\* The impression lists of a request: ids are distinct.
ImpLists ==
    UNION {{[i \in 1..n |-> MakeImp(ImpIds[i], kinds[i])] : kinds \in [1..n -> ImpKinds]}
           : n \in 0..MaxImps}

\* The request's own extension, and the one makeRequest writes (line 276).
RequestExt == "request.ext"
OpenxReqExt == "openxReqExt"

OpenxRequests == {[Imp |-> imps, Ext |-> RequestExt] : imps \in ImpLists}

\* The error of lines 225-229; its message names the impression.
CapabilityError(imp) ==
    [code |-> "BadInput", msg |-> "OpenX only supports banner and video imps", imp |-> imp.ID]

\* preprocess (lines 301-335) on its own copy of the impression.
preprocess(imp) ==
    IF imp.Ext = ExtMalformed
    THEN [err |-> TRUE, imp |-> imp]
    ELSE [err |-> FALSE,
          imp |-> [imp EXCEPT !.Ext = IF imp.Ext = ExtOpenxCustom THEN ImpExtCustom
                                      ELSE NilExt]]

NoRequestData == [nil |-> TRUE, Body |-> [Imp |-> <<>>, Ext |-> ""]]

\* makeRequest (lines 257-299) on the request the pointer target names in
\* mem: the memory afterwards, the RequestData and the errors.  The body is
\* the request as json.Marshal reads it after lines 273 and 276.
makeRequest(mem, target) ==
    LET imps == mem[target].Imp
        pre == [i \in 1..Len(imps) |-> preprocess(imps[i])]
        good == SelectSeq(pre, LAMBDA p : ~p.err)
        bad == SelectSeq(pre, LAMBDA p : p.err)
        validImps == [i \in 1..Len(good) |-> good[i].imp]
        errList == [i \in 1..Len(bad) |-> CodedError("BadInput", "invalid imp.ext")]
        after == [mem EXCEPT ![target] = [Imp |-> validImps, Ext |-> OpenxReqExt]]
    IN  IF Len(validImps) = 0
        THEN [mem |-> mem, data |-> NoRequestData, errs |-> errList]
        ELSE [mem |-> after,
              data |-> [nil |-> FALSE, Body |-> after[target]],
              errs |-> errList]

\* The classification that lets video take priority over banner.
openxImpKind_VideoFirst(imp) ==
    IF imp.Video THEN "video" ELSE IF imp.Banner THEN "banner" ELSE "none"

\* The classification of lines 218-231: banner takes priority over video.
openxImpKind(imp) ==
    IF imp.Banner THEN "banner" ELSE IF imp.Video THEN "video" ELSE "none"

\* The loop of lines 246-253 from video impression i on.
RECURSIVE videoRequests(_, _, _)
videoRequests(mem, videoImps, i) ==
    IF i > Len(videoImps) THEN [mem |-> mem, requests |-> <<>>, errs |-> <<>>]
    ELSE LET one == makeRequest([mem EXCEPT !["reqCopy"].Imp = <<videoImps[i]>>], "reqCopy")
             rest == videoRequests(one.mem, videoImps, i + 1)
         IN  [mem |-> rest.mem,
              requests |-> (IF one.data.nil THEN <<>> ELSE <<one.data>>) \o rest.requests,
              errs |-> one.errs \o rest.errs]

\* MakeRequests (lines 213-255): the RequestData list, the errors, and the
\* caller's request as the call leaves it.
OpenxMakeRequests(request) ==
    LET bannerImps == SelectSeq(request.Imp, LAMBDA imp : openxImpKind(imp) = "banner")
        videoImps == SelectSeq(request.Imp, LAMBDA imp : openxImpKind(imp) = "video")
        others == SelectSeq(request.Imp, LAMBDA imp : openxImpKind(imp) = "none")
        errs0 == [i \in 1..Len(others) |-> CapabilityError(others[i])]
        mem0 == [request |-> request, reqCopy |-> [request EXCEPT !.Imp = bannerImps]]
        first == makeRequest(mem0, "reqCopy")
        videos == videoRequests(first.mem, videoImps, 1)
    IN  [requests |-> (IF first.data.nil THEN <<>> ELSE <<first.data>>) \o videos.requests,
         errs |-> errs0 \o first.errs \o videos.errs,
         request |-> videos.mem["request"]]

makeRequestsCall ==
    /\ ~call.valid
    /\ \E request \in OpenxRequests :
         call' = [valid |-> TRUE, fn |-> "MakeRequests", request |-> request,
                  out |-> OpenxMakeRequests(request)]
    /\ UNCHANGED <<auctionVars, eventVars, fetchVars, backendVars>>

NextCalls ==
    \/ validateBidsCall
    \/ validateCurrencyCall
    \/ auctionContextsCall
    \/ makeBidsCall
    \/ recordCall
    \/ labelRecordsCall
    \/ makeRequestsCall

(***************************************************************************)
(*   COMPOSED CACHES AND STACKED FETCHERS: Compose (stored_requests/       *)
(*   fetcher.go) and WithCache with Subscriptions (the stored_requests     *)
(*   package in events/postgres/postgres.go)                               *)
(*                                                                         *)
(* layers are the leaf caches c1..cn.  They are used in three ways:        *)
(* Compose(c1..cn) as one cache, WithCache(f, Compose(c1..cn)) as a        *)
(* fetcher, and the stack WithCache(..WithCache(f, c1).., cn), whose       *)
(* fetcher k is the one built with ck and fetcher 0 is f itself.           *)
(***************************************************************************)
\* Largest number of caches composed or stacked.
MaxLayers == 2

\* What a leaf cache may hold: id "1" with either value, id "2" with one.
LayerMaps == {m \in StoredMaps : "2" \in DOMAIN m => m["2"] = "b"}

LayerLists == UNION {[1..n -> LayerMaps] : n \in 1..MaxLayers}

\* Arguments of Update and Invalidate.
UpdateData == LayerMaps \ {EmptyMap}
InvalidateIds == {<<i>> : i \in Ids} \cup {<<"1", "2">>}

\* The files the underlying eagerFetcher has loaded: one of the ids, or both.
ComposeStores == {[i \in {"1"} |-> "b"], [i \in Ids |-> "b"]}

NoOp == [op |-> "none"]

ComposeStart(caches) ==
    /\ layers \in caches
    /\ cret = NoOp

\* append(remainingIds[:i], remainingIds[i+1:]...) on a slice of length n over
\* the backing array arr: the elements after i move one place down inside
\* arr, and the last place of the old slice keeps its value.
RemoveAt(arr, n, i) ==
    [j \in 1..Len(arr) |-> IF j >= i /\ j < n THEN arr[j + 1] ELSE arr[j]]

\* The inner loop of composedCache.Get over one layer's answer cachedData,
\* from index i down to the first: st holds the backing array of the id
\* list, the length of remainingIds and the data gathered so far.
RECURSIVE scanLayer(_, _, _)
scanLayer(cachedData, st, i) ==
    IF i = 0 THEN st
    ELSE IF st.arr[i] \in DOMAIN cachedData
         THEN scanLayer(cachedData,
                        [arr |-> RemoveAt(st.arr, st.n, i),
                         n |-> st.n - 1,
                         data |-> (st.arr[i] :> cachedData[st.arr[i]]) @@ st.data],
                        i - 1)
         ELSE scanLayer(cachedData, st, i - 1)

\* The outer loop of composedCache.Get from layer k on.
RECURSIVE getFrom(_, _, _)
getFrom(caches, k, st) ==
    IF k > Len(caches) THEN st
    ELSE LET cachedData == CacheGet(caches[k], SubSeq(st.arr, 1, st.n))
             st2 == IF cachedData # EmptyMap THEN scanLayer(cachedData, st, st.n) ELSE st
         IN  IF st2.n = 0 THEN st2 ELSE getFrom(caches, k + 1, st2)

\* composedCache.Get that asks the first layer only.
composedGet_FirstLayerOnly(caches, ids) ==
    [data |-> CacheGet(caches[1], ids), ids |-> ids]

\* composedCache.Get: the map returned, and the caller's id list as the call
\* leaves it (remainingIds shares its backing array).
composedGet(caches, ids) ==
    LET st == getFrom(caches, 1, [arr |-> ids, n |-> Len(ids), data |-> EmptyMap])
    IN  [data |-> st.data, ids |-> st.arr]

\* composedCache.Update that stops after the first layer.
composedUpdate_FirstLayerOnly(caches, data) ==
    [k \in 1..Len(caches) |-> IF k = 1 THEN CacheUpdate(caches[k], data) ELSE caches[k]]

\* composedCache.Update.
composedUpdate(caches, data) ==
    [k \in 1..Len(caches) |-> CacheUpdate(caches[k], data)]

\* composedCache.Invalidate that stops after the first layer.
composedInvalidate_FirstLayerOnly(caches, ids) ==
    [k \in 1..Len(caches) |-> IF k = 1 THEN CacheInvalidate(caches[k], ids) ELSE caches[k]]

\* composedCache.Invalidate.
composedInvalidate(caches, ids) ==
    [k \in 1..Len(caches) |-> CacheInvalidate(caches[k], ids)]

\* fetcherWithCache.FetchRequests that asks the underlying fetcher for every id.
composedFetch_AsksAll(caches, stored, ids) ==
    LET got == composedGet(caches, ids)
        under == eagerFetch(stored, ids)
    IN  [data |-> under.data @@ got.data, errs |-> under.errs,
         caches |-> composedUpdate(caches, got.data), asked |-> ids, hits |-> got.data]

\* fetcherWithCache.FetchRequests of WithCache(f, Compose(caches)) over an
\* eagerFetcher holding stored: the list ranged over is the caller's list as
\* Get left it.
composedFetch(caches, stored, ids) ==
    LET got == composedGet(caches, ids)
        missingIds == SelectSeq(got.ids, LAMBDA id : id \notin DOMAIN got.data)
        under == eagerFetch(stored, missingIds)
    IN  [data |-> under.data @@ got.data, errs |-> under.errs,
         caches |-> composedUpdate(caches, got.data), asked |-> missingIds,
         hits |-> got.data]

\* What a Subscriptions list holds: a leaf cache, or a fetcherWithCache
\* (which is a Cache through its embedded Subscriptions).
CacheRef(k) == [kind |-> "cache", at |-> k]
FetcherRef(k) == [kind |-> "fetcher", at |-> k]

\* Subscriptions.Subscribe on fetcher k.
Subscribe(subs, k, c) == [subs EXCEPT ![k] = Append(@, c)]

\* WithCache that also subscribes the cache to the underlying fetcher.
WithCache_CacheSubscribedBelow(subs, k) ==
    Subscribe(Subscribe(Subscribe(subs, k, CacheRef(k)), k - 1, CacheRef(k)),
              k - 1, FetcherRef(k))

\* WithCache(fetcher k-1, cache k), which builds fetcher k.
WithCache(subs, k) ==
    Subscribe(Subscribe(subs, k, CacheRef(k)), k - 1, FetcherRef(k))

\* The subscription lists of fetchers 0..n after n calls of WithCache.
RECURSIVE buildStack(_)
buildStack(n) ==
    IF n = 0 THEN (0 :> <<>>)
    ELSE WithCache(buildStack(n - 1) @@ (n :> <<>>), n)

\* Subscriptions.Update / Subscriptions.Invalidate on fetcher j, from entry i
\* of its list on: the leaf caches called, in the order of the calls.
RECURSIVE deliveries(_, _, _)
deliveries(subs, j, i) ==
    IF i > Len(subs[j]) THEN <<>>
    ELSE LET c == subs[j][i]
         IN  (IF c.kind = "cache" THEN <<c.at>> ELSE deliveries(subs, c.at, 1))
             \o deliveries(subs, j, i + 1)

RECURSIVE updateEach(_, _, _)
updateEach(caches, called, data) ==
    IF called = <<>> THEN caches
    ELSE updateEach([caches EXCEPT ![Head(called)] = CacheUpdate(@, data)],
                    Tail(called), data)

RECURSIVE invalidateEach(_, _, _)
invalidateEach(caches, called, ids) ==
    IF called = <<>> THEN caches
    ELSE invalidateEach([caches EXCEPT ![Head(called)] = CacheInvalidate(@, ids)],
                        Tail(called), ids)

\* fetcherWithCache.FetchRequests of fetcher k of the stack (fetcher 0 is the
\* eagerFetcher): what it returns and, for every layer, the ids it was asked
\* for, the ids its cache returned and the ids it passed down.
RECURSIVE stackFetch(_, _, _, _)
stackFetch(caches, stored, k, ids) ==
    IF k = 0
    THEN LET under == eagerFetch(stored, ids)
         IN  [data |-> under.data, errs |-> under.errs, calls |-> <<>>]
    ELSE LET data == CacheGet(caches[k], ids)
             missingIds == SelectSeq(ids, LAMBDA id : id \notin DOMAIN data)
             below == stackFetch(caches, stored, k - 1, missingIds)
         IN  [data |-> below.data @@ data, errs |-> below.errs,
              calls |-> Append(below.calls,
                               [ids |-> ids, hits |-> data, asked |-> missingIds])]

\* fetcherWithCache.Get of fetcher k of the stack: forwarded to its own cache.
stackGet(caches, k, ids) == CacheGet(caches[k], ids)

\* Cache.Get on Compose(layers).
ComposedGetOp(ids) ==
    /\ LET got == composedGet(layers, ids)
       IN  cret' = [op |-> "Get", ids |-> ids, before |-> layers,
                    data |-> got.data, idsAfter |-> got.ids]
    /\ UNCHANGED layers
    /\ UNCHANGED <<auctionVars, eventVars, fetchVars, call, pgVars, fileVars>>

\* Cache.Update on Compose(layers).
ComposedUpdateOp(data) ==
    /\ layers' = composedUpdate(layers, data)
    /\ cret' = [op |-> "Update", data |-> data, before |-> layers]
    /\ UNCHANGED <<auctionVars, eventVars, fetchVars, call, pgVars, fileVars>>

\* Cache.Invalidate on Compose(layers).
ComposedInvalidateOp(ids) ==
    /\ layers' = composedInvalidate(layers, ids)
    /\ cret' = [op |-> "Invalidate", ids |-> ids, before |-> layers]
    /\ UNCHANGED <<auctionVars, eventVars, fetchVars, call, pgVars, fileVars>>

\* FetchRequests on WithCache(f, Compose(layers)).
ComposedFetchOp(ids) ==
    /\ LET r == composedFetch(layers, storedReqs, ids)
       IN  /\ layers' = r.caches
           /\ cret' = [op |-> "Fetch", ids |-> ids, before |-> layers, data |-> r.data,
                       errs |-> r.errs, asked |-> r.asked, hits |-> r.hits]
    /\ UNCHANGED <<auctionVars, eventVars, fetchVars, call, pgVars, fileVars>>

\* Update on fetcher j of the stack; with j = 0 the underlying fetcher
\* publishes an update.
StackUpdateOp(j, data) ==
    /\ j \in 0..Len(layers)
    /\ LET called == deliveries(buildStack(Len(layers)), j, 1)
       IN  /\ layers' = updateEach(layers, called, data)
           /\ cret' = [op |-> "StackUpdate", at |-> j, data |-> data, before |-> layers,
                       called |-> called]
    /\ UNCHANGED <<auctionVars, eventVars, fetchVars, call, pgVars, fileVars>>

\* Invalidate on fetcher j of the stack; with j = 0 the underlying fetcher
\* publishes an invalidation.
StackInvalidateOp(j, ids) ==
    /\ j \in 0..Len(layers)
    /\ LET called == deliveries(buildStack(Len(layers)), j, 1)
       IN  /\ layers' = invalidateEach(layers, called, ids)
           /\ cret' = [op |-> "StackInvalidate", at |-> j, ids |-> ids, before |-> layers,
                       called |-> called]
    /\ UNCHANGED <<auctionVars, eventVars, fetchVars, call, pgVars, fileVars>>

\* Get on fetcher k of the stack.
StackGetOp(k, ids) ==
    /\ k \in 1..Len(layers)
    /\ cret' = [op |-> "StackGet", at |-> k, ids |-> ids, before |-> layers,
                data |-> stackGet(layers, k, ids)]
    /\ UNCHANGED layers
    /\ UNCHANGED <<auctionVars, eventVars, fetchVars, call, pgVars, fileVars>>

\* FetchRequests on the top fetcher of the stack.  Each layer's
\* f.cache.Update(ctx, data) hands its cache the entries it has just returned.
StackFetchOp(ids) ==
    /\ LET r == stackFetch(layers, storedReqs, Len(layers), ids)
       IN  /\ layers' = [k \in 1..Len(layers) |-> CacheUpdate(layers[k], r.calls[k].hits)]
           /\ cret' = [op |-> "StackFetch", ids |-> ids, before |-> layers, data |-> r.data,
                       errs |-> r.errs, calls |-> r.calls]
    /\ UNCHANGED <<auctionVars, eventVars, fetchVars, call, pgVars, fileVars>>

NextCompose ==
    \/ \E ids \in IdLists : ComposedGetOp(ids)
    \/ \E data \in UpdateData : ComposedUpdateOp(data)
    \/ \E ids \in InvalidateIds : ComposedInvalidateOp(ids)
    \/ \E ids \in IdLists : ComposedFetchOp(ids)
    \/ \E j \in 0..MaxLayers, data \in UpdateData : StackUpdateOp(j, data)
    \/ \E j \in 0..MaxLayers, ids \in InvalidateIds : StackInvalidateOp(j, ids)
    \/ \E k \in 1..MaxLayers, ids \in IdLists : StackGetOp(k, ids)
    \/ \E ids \in IdLists : StackFetchOp(ids)

(***************************************************************************)
(*   THE DATABASE NOTIFY PRODUCER: events/postgres/postgres.go             *)
(***************************************************************************)
\* Notifications the database sends in one run.
MaxNotifications == 2

\* A payload {table, action, data: {id, requestData}} of the channel.
Notifications == [action : {"INSERT", "UPDATE", "DELETE"}, id : Ids, requestData : Vals]

PgStart ==
    /\ pgNotify = <<>>
    /\ pgHandled = <<>>
    /\ pgUpdates = <<>>
    /\ pgInvalidations = <<>>
    /\ pgPinged = FALSE

\* The database notifies the listener: the payload waits on l.Notify.
PgNotification(n) ==
    /\ Len(pgNotify) + Len(pgHandled) < MaxNotifications
    /\ pgNotify' = Append(pgNotify, n)
    /\ UNCHANGED <<pgHandled, pgUpdates, pgInvalidations, pgPinged>>
    /\ UNCHANGED <<auctionVars, eventVars, fetchVars, call, composeVars, fileVars>>

\* handleNotifications, case n := <-l.Notify: the notification is logged.
\* Nothing is sent on the updates or the invalidations channel, which
\* handleNotifications is not even given.
HandleNotification ==
    /\ pgNotify # <<>>
    /\ pgNotify' = Tail(pgNotify)
    /\ pgHandled' = Append(pgHandled, Head(pgNotify))
    /\ UNCHANGED <<pgUpdates, pgInvalidations, pgPinged>>
    /\ UNCHANGED <<auctionVars, eventVars, fetchVars, call, composeVars, fileVars>>

\* handleNotifications, case <-time.After(90 * time.Second): no notification
\* for 90 seconds, the connection is pinged.
PgIdlePing ==
    /\ pgNotify = <<>>
    /\ pgPinged' = TRUE
    /\ UNCHANGED <<pgNotify, pgHandled, pgUpdates, pgInvalidations>>
    /\ UNCHANGED <<auctionVars, eventVars, fetchVars, call, composeVars, fileVars>>

NextPg ==
    \/ \E n \in Notifications : PgNotification(n)
    \/ HandleNotification
    \/ PgIdlePing

(***************************************************************************)
(*   THE FILE FETCHER AND ITS WATCHER: backends/file_fetcher/fetcher.go    *)
(*                                                                         *)
(* The watcher goroutine and a caller of FetchRequests run side by side.   *)
(* A read or a write of the map storedReqs is two steps, so that an        *)
(* overlap of the two is a state of the model.                             *)
(***************************************************************************)
\* Writes to the loaded files in one run.
MaxWrites == 2

\* What ioutil.ReadFile gives for a file that cannot be read (nil, err).
Unreadable == "<unreadable>"
NilData == "<nil>"

\* The directories NewFileFetcher may load: 1.json alone, or 1.json and 2.json.
LoadedFiles == {[i \in {"1"} |-> "a"], [i \in Ids |-> "a"]}

FilesStart ==
    /\ disk \in LoadedFiles
    /\ fileReqs = disk
    /\ fileCache = EmptyMap
    /\ wq = <<>>
    /\ nwrites = 0
    /\ wpc = "select"
    /\ wid = ""
    /\ wdata = NilData
    /\ rpc = "idle"
    /\ rids = <<>>
    /\ ri = 0
    /\ rerrs = <<>>
    /\ rsnap = EmptyMap
    /\ raced = FALSE

\* The process has not died of "fatal error: concurrent map read and map
\* write".
Alive == rpc # "crashed"

\* Somebody writes a loaded file, or makes it unreadable; fsnotify queues a
\* Write event for it.
WriteFile(id, content) ==
    /\ Alive
    /\ nwrites < MaxWrites
    /\ id \in DOMAIN disk
    /\ disk' = [disk EXCEPT ![id] = content]
    /\ wq' = Append(wq, id)
    /\ nwrites' = nwrites + 1
    /\ UNCHANGED <<fileReqs, fileCache, wpc, wid, wdata, rpc, rids, ri, rerrs, rsnap, raced>>
    /\ UNCHANGED <<auctionVars, eventVars, fetchVars, call, composeVars, pgVars>>

\* case event := <-watcher.Events with a Write event (lines 67-70).
WatcherEvent ==
    /\ Alive
    /\ wpc = "select"
    /\ wq # <<>>
    /\ wid' = Head(wq)
    /\ wq' = Tail(wq)
    /\ wpc' = "read"
    /\ UNCHANGED <<disk, fileReqs, fileCache, nwrites, wdata, rpc, rids, ri, rerrs, rsnap, raced>>
    /\ UNCHANGED <<auctionVars, eventVars, fetchVars, call, composeVars, pgVars>>

\* ioutil.ReadFile of what the disk holds by now (lines 71-77); an error is
\* logged and the reload goes on with the nil data.
readFile(content) == IF content = Unreadable THEN NilData ELSE content

WatcherReadFile ==
    /\ Alive
    /\ wpc = "read"
    /\ wdata' = readFile(disk[wid])
    /\ wpc' = "store"
    /\ UNCHANGED <<disk, fileReqs, fileCache, wq, nwrites, wid, rpc, rids, ri, rerrs, rsnap, raced>>
    /\ UNCHANGED <<auctionVars, eventVars, fetchVars, call, composeVars, pgVars>>

\* fetcher.storedReqs[id] = update[id] begins (line 78).
WatcherStoreBegin ==
    /\ Alive
    /\ wpc = "store"
    /\ wpc' = "storing"
    /\ raced' = (raced \/ rpc = "looking")
    /\ UNCHANGED <<disk, fileReqs, fileCache, wq, nwrites, wid, wdata, rpc, rids, ri, rerrs, rsnap>>
    /\ UNCHANGED <<auctionVars, eventVars, fetchVars, call, composeVars, pgVars>>

\* The assignment of line 78 is done.
WatcherStoreEnd ==
    /\ Alive
    /\ wpc = "storing"
    /\ fileReqs' = [fileReqs EXCEPT ![wid] = wdata]
    /\ wpc' = "notify"
    /\ UNCHANGED <<disk, fileCache, wq, nwrites, wid, wdata, rpc, rids, ri, rerrs, rsnap, raced>>
    /\ UNCHANGED <<auctionVars, eventVars, fetchVars, call, composeVars, pgVars>>

\* fetcher.Update(ctx, update) (line 81): Subscriptions.Update hands the
\* update to the subscribed cache.
WatcherNotify ==
    /\ Alive
    /\ wpc = "notify"
    /\ fileCache' = CacheUpdate(fileCache, wid :> wdata)
    /\ wpc' = "select"
    /\ UNCHANGED <<disk, fileReqs, wq, nwrites, wid, wdata, rpc, rids, ri, rerrs, rsnap, raced>>
    /\ UNCHANGED <<auctionVars, eventVars, fetchVars, call, composeVars, pgVars>>

\* eagerFetcher.FetchRequests is called (line 99).
FileFetchCall(ids) ==
    /\ Alive
    /\ rpc \in {"idle", "returned"}
    /\ rids' = ids
    /\ ri' = 1
    /\ rerrs' = <<>>
    /\ rsnap' = EmptyMap
    /\ rpc' = "loop"
    /\ UNCHANGED <<disk, fileReqs, fileCache, wq, nwrites, wpc, wid, wdata, raced>>
    /\ UNCHANGED <<auctionVars, eventVars, fetchVars, call, composeVars, pgVars>>

\* _, ok := fetcher.storedReqs[id] begins (line 102).
LookupBegin ==
    /\ Alive
    /\ rpc = "loop"
    /\ ri <= Len(rids)
    /\ rpc' = "looking"
    /\ raced' = (raced \/ wpc = "storing")
    /\ UNCHANGED <<disk, fileReqs, fileCache, wq, nwrites, wpc, wid, wdata, rids, ri, rerrs, rsnap>>
    /\ UNCHANGED <<auctionVars, eventVars, fetchVars, call, composeVars, pgVars>>

\* The lookup that finds every id.
lookup_AlwaysFound(stored, id) == TRUE

\* The map read of line 102: ok.
lookup(stored, id) == id \in DOMAIN stored

\* The read of line 102 is done, and an error appended for an unknown id
\* (line 103).  The watcher assigns to keys the map already has, so a read
\* that overlaps an assignment finds the key as well.
LookupEnd ==
    /\ Alive
    /\ rpc = "looking"
    /\ rerrs' = IF lookup(fileReqs, rids[ri]) THEN rerrs
                ELSE Append(rerrs, NotFoundError(rids[ri]))
    /\ ri' = ri + 1
    /\ rpc' = "loop"
    /\ UNCHANGED <<disk, fileReqs, fileCache, wq, nwrites, wpc, wid, wdata, rids, rsnap, raced>>
    /\ UNCHANGED <<auctionVars, eventVars, fetchVars, call, composeVars, pgVars>>

\* A read that overlaps the watcher's assignment is a data race; the runtime
\* may stop the process with "concurrent map read and map write".
LookupCrash ==
    /\ rpc = "looking"
    /\ wpc = "storing"
    /\ rpc' = "crashed"
    /\ UNCHANGED <<disk, fileReqs, fileCache, wq, nwrites, wpc, wid, wdata, rids, ri, rerrs, rsnap,
                   raced>>
    /\ UNCHANGED <<auctionVars, eventVars, fetchVars, call, composeVars, pgVars>>

\* return fetcher.storedReqs, errors (line 109): the caller is handed the
\* fetcher's own map; rsnap is what the map holds at that moment.
FileFetchReturn ==
    /\ Alive
    /\ rpc = "loop"
    /\ ri > Len(rids)
    /\ rsnap' = fileReqs
    /\ rpc' = "returned"
    /\ UNCHANGED <<disk, fileReqs, fileCache, wq, nwrites, wpc, wid, wdata, rids, ri, rerrs, raced>>
    /\ UNCHANGED <<auctionVars, eventVars, fetchVars, call, composeVars, pgVars>>

NextFiles ==
    \/ \E id \in Ids, content \in Vals \cup {Unreadable} : WriteFile(id, content)
    \/ WatcherEvent
    \/ WatcherReadFile
    \/ WatcherStoreBegin
    \/ WatcherStoreEnd
    \/ WatcherNotify
    \/ \E ids \in IdLists : FileFetchCall(ids)
    \/ LookupBegin
    \/ LookupEnd
    \/ LookupCrash
    \/ FileFetchReturn

(***************************************************************************)
(*                          SPECIFICATIONS                                 *)
(***************************************************************************)
\* The file fetcher with 1.json loaded.
FilesIdle == FilesStart /\ disk = [i \in {"1"} |-> "a"]

InitBackends == ComposeStart({<<EmptyMap>>}) /\ PgStart /\ FilesIdle

Init ==
    InitAuction /\ InitEvents /\ FetchStart({EmptyMap}) /\ call = NoCall /\ InitBackends

InitFetch ==
    InitAuction /\ InitEvents /\ FetchStart(StoredMaps) /\ call = NoCall /\ InitBackends

\* Any caches, over an eagerFetcher with any files loaded.
InitCompose ==
    /\ InitAuction /\ InitEvents /\ FetchStart(ComposeStores) /\ call = NoCall
    /\ ComposeStart(LayerLists) /\ PgStart /\ FilesIdle

\* The file fetcher over either directory.
InitFiles ==
    /\ InitAuction /\ InitEvents /\ FetchStart({EmptyMap}) /\ call = NoCall
    /\ ComposeStart({<<EmptyMap>>}) /\ PgStart /\ FilesStart

Next == NextAuction

\* The auction.
Spec == Init /\ [][Next]_vars

\* The auction with the scheduler's fairness: a goroutine that can take a
\* step does so, and the deadline of the context passes.
FairSpec ==
    /\ Spec
    /\ WF_vars(Collect)
    /\ WF_vars(Return)
    /\ WF_vars(DeadlineFires)
    /\ \A b \in Bidders : WF_vars(TaskSend(b) \/ TaskPanic(b) \/ TaskHang(b))
    /\ \A b \in Bidders : WF_vars(TaskRecover(b))

\* The listener and the admin endpoint.
SpecEvents == Init /\ [][NextEvents]_vars

\* The same with fairness: the listener goroutine keeps running, and its
\* select, which picks at random among the ready cases, does not leave a
\* ready sender out for ever.
FairSpecEvents ==
    /\ SpecEvents
    /\ WF_vars(ListenerApplyUpdate)
    /\ WF_vars(ListenerCountUpdate)
    /\ WF_vars(ListenerApplyInvalidate)
    /\ WF_vars(ListenerCountInvalidate)
    /\ SF_vars(ListenerRecvStop)
    /\ \A r \in Requests : SF_vars(ListenerRecvUpdate(r) \/ ListenerRecvInvalidate(r))

\* The fetcher with its cache.
SpecFetch == InitFetch /\ [][NextFetch]_vars

\* The functions checked on their own: one call, with any input of the model.
SpecCalls == Init /\ [][NextCalls]_vars

\* The composed cache and the stack of fetchers.
SpecCompose == InitCompose /\ [][NextCompose]_vars

\* The database notify producer.
SpecPg == Init /\ [][NextPg]_vars

\* The same with fairness: the goroutine of handleNotifications keeps running.
FairSpecPg == SpecPg /\ WF_vars(HandleNotification)

\* The file fetcher, its watcher goroutine and a caller of FetchRequests.
SpecFiles == InitFiles /\ [][NextFiles]_vars


(***************************************************************************)
(*                              CLAIMS                                     *)
(***************************************************************************)
\* HoldAuction has returned a response built from the collected results.
Assembled == disp = "returned"

\* The bids of bidder a's seat in the response (none when it has no seat).
SeatBidsOf(a) ==
    IF \E i \in 1..Len(resp.SeatBid) : resp.SeatBid[i].Seat = a
    THEN (CHOOSE sb \in Range(resp.SeatBid) : sb.Seat = a).Bid
    ELSE <<>>

\* C1: when getAllBids returns, the collection loop has received exactly one
\* result from the task of every cleaned bidder request, whichever tasks
\* panicked and wherever they did.
C1_OneResultPerTask ==
    Assembled => \A b \in cleanRequests : received[b] = 1

\* C2: when the task of bidder x panicked, the response extension has an
\* error entry under x with code Unknown, and every bidder whose task did
\* not panic has in the response the bids, errors and response time its
\* task produced.
C2_PanicIsolated ==
    Assembled =>
      /\ \A x \in panicked :
           /\ x \in DOMAIN resp.Ext.Errors
           /\ \E i \in 1..Len(resp.Ext.Errors[x]) : resp.Ext.Errors[x][i].Code = "Unknown"
      /\ (panicked # {} =>
            \A y \in cleanRequests \ panicked :
              /\ y \in DOMAIN produced
              /\ SeatBidsOf(y) = produced[y].adapterBids.bids
              /\ y \in DOMAIN resp.Ext.ResponseTimeMillis
              /\ resp.Ext.ResponseTimeMillis[y] = produced[y].adapterExtra.ResponseTimeMillis
              /\ (IF y \in DOMAIN resp.Ext.Errors THEN resp.Ext.Errors[y] ELSE <<>>)
                   = produced[y].adapterExtra.Errors)

\* C3: once the deadline of the auction context has fired, getAllBids
\* returns, also when some task never produces a result.
C3_DeadlineReturns == deadlineFired ~> Assembled

\* The currency a seat declares, USD when it declares none.
SeatCurrency(a) == IF adapterBids[a].currency = "" THEN "USD" ELSE adapterBids[a].currency

\* The request's allow-list, USD alone when it is empty.
AllowedCurrencies == IF Len(requestCur) = 0 THEN {"USD"} ELSE Range(requestCur)

\* Every bid of the response has an id, an impid and a crid and a positive price.
ResponseBidsWellFormed ==
    \A i \in 1..Len(resp.SeatBid) : \A j \in 1..Len(resp.SeatBid[i].Bid) :
       LET bid == resp.SeatBid[i].Bid[j]
       IN  ~bid.nil /\ bid.ID # "" /\ bid.ImpID # "" /\ bid.CrID # "" /\ bid.Price > 0

\* C4 as stated: every bid of the response is well formed, and the currency
\* of its seat is an entry of the request's allow-list.
C4_ResponseBidsValidExact ==
    Assembled =>
      /\ ResponseBidsWellFormed
      /\ \A i \in 1..Len(resp.SeatBid) :
            SeatCurrency(resp.SeatBid[i].Seat) \in AllowedCurrencies

\* C4 as amended: every bid of the response is well formed, and the currency
\* of its seat equals an entry of the request's allow-list when letter case
\* is ignored.
C4_ResponseBidsValid ==
    Assembled =>
      /\ ResponseBidsWellFormed
      /\ \A i \in 1..Len(resp.SeatBid) :
            ToUpper(SeatCurrency(resp.SeatBid[i].Seat)) \in {ToUpper(c) : c \in AllowedCurrencies}

\* C4's case: a response with two seats, one of which lost an invalid bid
\* and kept a valid one under a lower-case currency.
C4_Witness ==
    /\ Assembled
    /\ Len(resp.SeatBid) = 2
    /\ \E i \in 1..Len(resp.SeatBid) :
         LET a == resp.SeatBid[i].Seat
         IN  /\ adapterBids[a].currency = "usd"
             /\ a \in DOMAIN resp.Ext.Errors
             /\ Len(resp.SeatBid[i].Bid) = 1

\* C5: after FetchRequests returned the bytes of an id that the cache did not
\* hold and the underlying fetcher does, without error, the cache returns the
\* same bytes for that id.
C5_FetchFillsCache ==
    ret.valid =>
      \A id \in Range(ret.ids) :
        (/\ id \notin DOMAIN ret.cacheBefore
         /\ id \in DOMAIN storedReqs
         /\ Len(ret.errs) = 0
         /\ id \in DOMAIN ret.data)
        => /\ id \in DOMAIN CacheGet(fcache, <<id>>)
           /\ CacheGet(fcache, <<id>>)[id] = ret.data[id]

\* The listener has applied every event it received.
CaughtUp ==
    /\ updateCount = pushedU
    /\ invalidationCount = pushedI
    /\ \A id \in Ids :
         lastEv[id].kind = "update" =>
           /\ id \in DOMAIN CacheGet(cache, <<id>>)
           /\ CacheGet(cache, <<id>>)[id] = lastEv[id].val

\* C6: for every sequence of updates and invalidations pushed, the listener
\* comes back to its select with UpdateCount and InvalidationCount equal to
\* the numbers pushed, and the cache then returns, for every id whose last
\* pushed event was an update, the value of that update.
C6_ListenerCatchesUp ==
    /\ [](lpc = "select" => CaughtUp)
    /\ []<>(lpc = "select")

\* C6's case: both requests pushed an update, for the same id with
\* different values, and the listener has applied both.
C6_Witness ==
    /\ lpc = "select"
    /\ pushedU >= 2
    /\ updateCount = pushedU
    /\ \E id \in Ids : lastEv[id].kind = "update" /\ cache[id] = lastEv[id].val
    /\ \E q, r \in Requests :
         /\ q < r /\ hpc[q] = "done" /\ hpc[r] = "done"
         /\ hreq[q].method = "POST" /\ hreq[r].method = "POST"
         /\ hreq[q].id = hreq[r].id /\ hreq[q].body # hreq[r].body
         /\ hstatus[q] = StatusOK /\ hstatus[r] = StatusOK

\* C7: once the listener has received the stop signal it receives no further
\* event and applies none to the cache.
C7_StopEndsListening ==
    [][stopReceived => (lpc' = lpc /\ cache' = cache /\ updateCount' = updateCount
                         /\ invalidationCount' = invalidationCount)]_vars

\* Text that is JSON, as the claims use the word.
IsJSON(body) == body \in {BodyPlain, BodyPadded}

\* A POST with a JSON body, or a DELETE.
Accepted(rq) == (rq.method = "POST" /\ IsJSON(rq.body)) \/ rq.method = "DELETE"

\* An accepted request that has returned was answered 200.
AcceptedAnswered200 ==
    \A r \in Requests : hpc[r] = "done" /\ Accepted(hreq[r]) => hstatus[r] = StatusOK

\* Once applied, an update or invalidation has moved its counter and the cache.
CountersFollowRequests ==
    lpc = "select" => /\ updateCount = pushedU
                      /\ invalidationCount = pushedI
                      /\ \A id \in Ids : lastEv[id].kind = "invalidate" => id \notin DOMAIN cache

\* Every accepted request returns: its event is received by the listener.
AcceptedReturns ==
    \A r \in Requests : (hpc[r] = "send") ~> (hpc[r] = "done" /\ lpc = "select")

\* C8 as stated, its cache part: once the listener has applied the events,
\* the cache returns for an id whose last event was a POST exactly the body
\* of that POST.
C8_CacheHoldsExactBody ==
    lpc = "select" =>
      \A id \in Ids :
        lastEv[id].kind = "update" => id \in DOMAIN cache /\ cache[id] = lastEv[id].body

\* The JSON value of a body: the body without the white space around it.
JSONValue(body) == IF body = BodyPadded THEN "{\"foo\":\"baz\"}" ELSE body

\* C8 as amended: a POST with a JSON body and a DELETE are answered 200 and
\* their event reaches the listener; once applied, the counters have moved,
\* the cache returns for the id of a POST the JSON value of its body (the
\* body without the white space around it), and nothing for the id of a DELETE.
C8_AdminCycle ==
    /\ []AcceptedAnswered200
    /\ []CountersFollowRequests
    /\ [](lpc = "select" =>
            \A id \in Ids :
              lastEv[id].kind = "update" =>
                id \in DOMAIN cache /\ cache[id] = JSONValue(lastEv[id].body))
    /\ AcceptedReturns

\* C8's case: a POST of a padded JSON body for an id, answered 200, then a
\* DELETE for the same id, answered 200, both applied.
C8_Witness ==
    /\ lpc = "select"
    /\ updateCount = 1
    /\ invalidationCount = 1
    /\ \E q, r \in Requests :
         /\ q < r /\ hpc[q] = "done" /\ hpc[r] = "done"
         /\ hreq[q].method = "POST" /\ hreq[q].body = BodyPadded /\ hstatus[q] = StatusOK
         /\ hreq[r].method = "DELETE" /\ hreq[r].id = hreq[q].id /\ hstatus[r] = StatusOK
         /\ lastEv[hreq[r].id].kind = "invalidate"
         /\ hreq[r].id \notin DOMAIN cache

\* C9: a request with a method other than POST and DELETE is answered 405
\* and sends no event.
C9_OtherMethods405 ==
    \A r \in Requests :
      (hreq[r].method \notin {"POST", "DELETE", ""})
        => /\ hpc[r] # "send"
           /\ hevent[r] = NoEvent
           /\ (hpc[r] = "done" => hstatus[r] = StatusMethodNotAllowed)

\* A POST whose body is no JSON.
BadPost(rq) == rq.method = "POST" /\ ~IsJSON(rq.body)

\* C10: a POST whose body is no JSON is answered 400 and sends no event, and
\* the step that serves it leaves the listener, its counters and the cache
\* as they were.
C10_BadPostRejected ==
    /\ [](\A r \in Requests :
            BadPost(hreq[r]) => /\ hpc[r] = "done"
                                /\ hstatus[r] = StatusBadRequest
                                /\ hevent[r] = NoEvent)
    /\ [][(\E r \in Requests : hpc[r] = "new" /\ BadPost(hreq'[r]))
            => UNCHANGED <<lpc, ldata, cache, updateCount, invalidationCount,
                           pushedU, pushedI, lastEv>>]_vars

\* C10's case: a POST with a JSON body was applied to the cache, and a later
\* POST for the same id whose body is no JSON was answered 400.
C10_Witness ==
    \E q, r \in Requests :
      /\ q < r
      /\ hpc[q] = "done" /\ hreq[q].method = "POST" /\ hstatus[q] = StatusOK
      /\ hpc[r] = "done" /\ hreq[r] = [method |-> "POST", id |-> hreq[q].id, body |-> BodyNotJSON]
      /\ hstatus[r] = StatusBadRequest
      /\ lpc = "select" /\ updateCount = 1
      /\ hreq[q].id \in DOMAIN cache

C13_RequestErrorsUnderPrebid ==
    (Assembled /\ Len(errs) > 0) =>
      /\ "prebid" \in DOMAIN resp.Ext.Errors
      /\ Len(resp.Ext.Errors["prebid"]) = Len(errs)
      /\ \A i \in 1..Len(errs) :
           /\ resp.Ext.Errors["prebid"][i].Message = errs[i].msg
           /\ resp.Ext.Errors["prebid"][i].Code = errs[i].code

\* C14 as stated: when request.ext does not parse, HoldAuction produces an
\* empty bid response carrying NBR = InvalidRequest.
C14_ExtFailureGivesNBR ==
    disp = "failed" =>
      resp.returned /\ ~resp.failed /\ resp.NBR = "InvalidRequest" /\ resp.SeatBid = <<>>

\* C14 as amended: when request.ext does not parse, HoldAuction returns an
\* error and no bid response (so no NBR), and starts no adapter task.
C14_ExtFailureIsError ==
    disp = "failed" =>
      /\ resp.returned /\ resp.failed /\ resp.NBR = "" /\ resp.SeatBid = <<>>
      /\ \A b \in Bidders : tpc[b] = "idle"
      /\ chBids = <<>> /\ nrecv = 0

\* C14's case: request.ext did not parse in a request for which the cleaner
\* left a bidder and returned an error.
C14_Witness ==
    /\ disp = "failed"
    /\ cleanRequests # {}
    /\ Len(errs) > 0
    /\ resp.failed

\* C15: the errors a bidder's adapter and the validation of its bids returned
\* are in the response extension under that bidder's name, and every entry
\* under a bidder's name holds that bidder's errors.
C15_ErrorsUnderOwnBidder ==
    Assembled =>
      /\ \A b \in DOMAIN produced :
           Len(produced[b].adapterExtra.Errors) > 0 =>
             /\ b \in DOMAIN resp.Ext.Errors
             /\ resp.Ext.Errors[b] = produced[b].adapterExtra.Errors
      /\ \A k \in (DOMAIN resp.Ext.Errors) \ {"prebid"} :
           /\ k \in DOMAIN produced
           /\ resp.Ext.Errors[k] = produced[k].adapterExtra.Errors

\* C20: the seats of the response are, in the order of liveAdapters, the
\* bidders whose task produced at least one bid that passed validation, each
\* once and with those bids.
C20_SeatsFollowLiveOrder ==
    Assembled =>
      LET bidding == SelectSeq(liveAdapters,
                        LAMBDA b : b \in DOMAIN produced
                                   /\ Len(produced[b].adapterBids.bids) > 0)
      IN  /\ Len(resp.SeatBid) = Len(bidding)
          /\ \A i \in 1..Len(bidding) :
               /\ resp.SeatBid[i].Seat = bidding[i]
               /\ resp.SeatBid[i].Bid = produced[bidding[i]].adapterBids.bids

\* A bid with an id, an impid, a crid and a positive price.
WellFormedBid(bid) ==
    ~bid.nil /\ bid.ID # "" /\ bid.ImpID # "" /\ bid.CrID # "" /\ bid.Price > 0

\* The currency a seat declares, USD when it declares none, and the entries
\* of a request's allow-list, USD alone when it is empty.
DeclaredCurrency(c) == IF c = "" THEN "USD" ELSE c
ListEntries(cur) == IF Len(cur) = 0 THEN {"USD"} ELSE Range(cur)

\* The declared currency equals an entry of the list when letter case is ignored.
InListIgnoringCase(cur, c) ==
    ToUpper(DeclaredCurrency(c)) \in {ToUpper(e) : e \in ListEntries(cur)}

\* The declared currency, in any letter case, is a code of ISO 4217.
IsISOCode(c) == ToUpper(DeclaredCurrency(c)) \in ISOCodes

\* C16: for a seat whose currency is allowed, validateBids leaves the valid
\* bids in their order, returns one error per bid removed, and keeps the seat
\* (with its currency) also when no bid is left.
C16_InvalidBidsExcised ==
    (/\ call.valid /\ call.fn = "validateBids"
     /\ ~call.seat.nil
     /\ IsISOCode(call.seat.currency)
     /\ InListIgnoringCase(call.cur, call.seat.currency))
    => /\ call.out.seat.bids = SelectSeq(call.seat.bids, WellFormedBid)
       /\ Len(call.out.err) = Len(call.seat.bids) - Len(call.out.seat.bids)
       /\ ~call.out.seat.nil
       /\ call.out.seat.currency = call.seat.currency

\* C16's cases: a seat that loses the bid between two valid ones, and a seat
\* that loses every bid and is kept.
C16_Witness ==
    /\ call.valid /\ call.fn = "validateBids"
    /\ \/ /\ call.seat.bids = <<GoodBid2, BidNoPrice, GoodBid>>
          /\ call.seat.currency = "usd" /\ call.cur = <<>>
          /\ call.out.seat.bids = <<GoodBid2, GoodBid>>
          /\ Len(call.out.err) = 1
       \/ /\ call.seat.bids = <<NilBid, BidNoID>>
          /\ call.seat.currency = "EUR" /\ call.cur = <<"eur">>
          /\ call.out.seat.bids = <<>> /\ ~call.out.seat.nil
          /\ Len(call.out.err) = 2

\* The error validateCurrency returns: currency.ParseISO's or its own.
IsCurrencyError(e) ==
    e.msg \in {"currency: tag is not a recognized currency", "Bid currency is not allowed"}

\* C17 as stated: a seat with a bid whose declared currency is no entry of
\* the allow-list loses all its bids, with the currency error as only error.
C17_CurrencyMismatchDiscardsExact ==
    (/\ call.valid /\ call.fn = "validateBids"
     /\ ~call.seat.nil /\ Len(call.seat.bids) >= 1
     /\ DeclaredCurrency(call.seat.currency) \notin ListEntries(call.cur))
    => /\ call.out.seat.bids = <<>>
       /\ Len(call.out.err) = 1
       /\ IsCurrencyError(call.out.err[1])

\* C17 as amended: a seat with a bid whose declared currency equals no entry
\* of the allow-list, letter case ignored, loses all its bids, with the
\* currency error as only error.
C17_CurrencyMismatchDiscards ==
    (/\ call.valid /\ call.fn = "validateBids"
     /\ ~call.seat.nil /\ Len(call.seat.bids) >= 1
     /\ ~InListIgnoringCase(call.cur, call.seat.currency))
    => /\ call.out.seat.bids = <<>>
       /\ ~call.out.seat.nil
       /\ Len(call.out.err) = 1
       /\ IsCurrencyError(call.out.err[1])

\* C17's case: a seat in EUR with a valid and two invalid bids, for a
\* request that allows USD alone.
C17_Witness ==
    /\ call.valid /\ call.fn = "validateBids"
    /\ call.seat.bids = <<GoodBid, BidNoID, NilBid>>
    /\ call.seat.currency = "EUR"
    /\ call.cur = <<"USD">>
    /\ call.out.seat.bids = <<>>
    /\ Len(call.out.err) = 1

\* C18 as stated: validateCurrency accepts exactly when the declared
\* currency equals an entry of the allow-list put in upper case.
C18_AcceptsIffListedExact ==
    (call.valid /\ call.fn = "validateCurrency")
    => (Len(call.out) = 0
          <=> DeclaredCurrency(call.bidCurrency) \in {ToUpper(e) : e \in ListEntries(call.cur)})

\* C18 as amended: validateCurrency accepts exactly when the declared
\* currency is a code of ISO 4217 and equals an entry of the allow-list,
\* letter case ignored on both sides; otherwise it returns one error.
C18_AcceptsIffListed ==
    (call.valid /\ call.fn = "validateCurrency")
    => /\ Len(call.out) = 0
            <=> (IsISOCode(call.bidCurrency) /\ InListIgnoringCase(call.cur, call.bidCurrency))
       /\ Len(call.out) <= 1

\* C18's cases: a lower-case currency accepted by the empty list, and a code
\* unknown to ISO 4217 refused though the list names it.
C18_Witness ==
    /\ call.valid /\ call.fn = "validateCurrency"
    /\ \/ call.bidCurrency = "usd" /\ call.cur = <<>> /\ Len(call.out) = 0
       \/ call.bidCurrency = "ZZZ" /\ call.cur = <<"ZZZ">> /\ Len(call.out) = 1

\* C19: when cache.bids is requested and the incoming context has deadline
\* D, the adapters run under deadline D - cacheTime and the cache put, when
\* made, under the incoming context; otherwise the adapters run under the
\* incoming context.
C19_AdapterDeadlineReduced ==
    (call.valid /\ call.fn = "auctionContexts")
    => /\ IF call.ext.cache /\ call.ext.bids /\ call.ctx.has
          THEN call.out.auctionCtx = Deadline(call.ctx.at - call.cacheTime)
          ELSE call.out.auctionCtx = call.ctx
       /\ call.out.doCache.called => call.out.doCache.ctx = call.ctx

\* C19's case: bids are cached, the deadline is MaxDeadline and cacheTime is
\* positive: the adapters' deadline is earlier, the cache put's is not.
C19_Witness ==
    /\ call.valid /\ call.fn = "auctionContexts"
    /\ call.ext.cache /\ call.ext.bids /\ call.ext.targeting
    /\ call.ctx = Deadline(MaxDeadline)
    /\ call.cacheTime > 0
    /\ call.out.auctionCtx.at = MaxDeadline - call.cacheTime
    /\ call.out.doCache.called /\ call.out.doCache.bids
    /\ call.out.doCache.ctx.at = MaxDeadline

\* The first layer of caches that holds id (0 when none does).
FirstHolder(caches, id) ==
    IF \E k \in 1..Len(caches) : id \in DOMAIN caches[k]
    THEN CHOOSE k \in 1..Len(caches) :
            /\ id \in DOMAIN caches[k]
            /\ \A j \in 1..(k - 1) : id \notin DOMAIN caches[j]
    ELSE 0

\* C21: FetchRequests of a fetcher built by WithCache(f, c) asks f only for
\* requested ids that c.Get did not return; no cache hit is requested from f.
\* Checked for WithCache over a composed cache and for every layer of a stack.
C21_OnlyMissesAsked ==
    /\ cret.op = "Fetch" =>
         LET got == composedGet(cret.before, cret.ids).data
         IN  /\ cret.hits = got
             /\ \A i \in 1..Len(cret.asked) :
                  cret.asked[i] \notin DOMAIN got /\ cret.asked[i] \in Range(cret.ids)
    /\ cret.op = "StackFetch" =>
         \A k \in 1..Len(cret.calls) :
            LET c == cret.calls[k]
            IN  /\ c.hits = CacheGet(cret.before[k], c.ids)
                /\ \A i \in 1..Len(c.asked) :
                     c.asked[i] \notin DOMAIN c.hits /\ c.asked[i] \in Range(c.ids)

\* A fetch over two composed caches with a hit in the second and a miss.
C21_Witness ==
    /\ cret.op = "Fetch"
    /\ Len(cret.before) = 2
    /\ cret.ids = <<"1", "2">>
    /\ DOMAIN cret.hits = {"1"}
    /\ "1" \notin DOMAIN cret.before[1]
    /\ cret.asked # <<>>

\* How many times the leaf cache k was called.
TimesCalled(called, k) == Cardinality({i \in 1..Len(called) : called[i] = k})

C23_InvalidatedIdsGone ==
    /\ cret.op = "Invalidate" =>
         \A id \in Range(cret.ids) : id \notin DOMAIN composedGet(layers, cret.ids).data
    /\ (cret.op = "StackInvalidate" /\ cret.at >= 1) =>
         \A id \in Range(cret.ids) : id \notin DOMAIN stackGet(layers, cret.at, cret.ids)

\* An id held by the second of two composed caches only is invalidated.
C23_Witness ==
    /\ cret.op = "Invalidate"
    /\ Len(cret.before) = 2
    /\ cret.ids = <<"1">>
    /\ "1" \notin DOMAIN cret.before[1]
    /\ "1" \in DOMAIN cret.before[2]

\* C24: composedCache.Get returns for each requested id the value of the
\* first layer, in Compose's order, that holds it, no entry for an id no
\* layer holds, and no key outside the requested list.
C24_GetFirstLayerWins ==
    cret.op = "Get" =>
        /\ DOMAIN cret.data \subseteq Range(cret.ids)
        /\ \A id \in Range(cret.ids) :
             LET k == FirstHolder(layers, id)
             IN  IF k = 0 THEN id \notin DOMAIN cret.data
                 ELSE id \in DOMAIN cret.data /\ cret.data[id] = layers[k][id]

\* Two layers hold id "1" with different values, the second alone holds "2".
C24_Witness ==
    /\ cret.op = "Get"
    /\ Len(layers) = 2
    /\ cret.ids = <<"1", "2">>
    /\ DOMAIN layers[1] = {"1"}
    /\ DOMAIN layers[2] = {"1", "2"}
    /\ layers[1]["1"] # layers[2]["1"]
    /\ DOMAIN cret.data = {"1", "2"}

\* C25: after Update(data) on a cache built by Compose every layer alone, and
\* the composed cache, return data[id] for every id of data; the same Update
\* applied again changes nothing.
C25_UpdateReachesEveryLayer ==
    cret.op = "Update" =>
        /\ \A id \in DOMAIN cret.data :
             /\ \A k \in 1..Len(layers) :
                  CacheGet(layers[k], <<id>>) = (id :> cret.data[id])
             /\ composedGet(layers, <<id>>).data = (id :> cret.data[id])
        /\ composedUpdate(layers, cret.data) = layers

\* An Update of an id the second layer held with another value and the first
\* layer did not hold.
C25_Witness ==
    /\ cret.op = "Update"
    /\ Len(layers) = 2
    /\ "1" \in DOMAIN cret.data
    /\ "1" \notin DOMAIN cret.before[1]
    /\ "1" \in DOMAIN cret.before[2]
    /\ cret.before[2]["1"] # cret.data["1"]

\* C27: for Brightroll and OpenX alike, MakeBids answers a status 204 with no
\* bids and no error, a status 400 with no bids and one BadInput error, and
\* any other status but 200 with no bids and one BadServerResponse error.
C27_StatusMapping ==
    (call.valid /\ call.fn = "MakeBids") =>
        LET status == call.response.StatusCode
            out == call.out
        IN  /\ status = StatusNoContent =>
                 ~out.panic /\ out.response.nil /\ out.errs = <<>>
            /\ status = StatusBadRequest =>
                 /\ ~out.panic /\ out.response.nil
                 /\ Len(out.errs) = 1 /\ out.errs[1].code = "BadInput"
            /\ status \notin {StatusOK, StatusNoContent, StatusBadRequest} =>
                 /\ ~out.panic /\ out.response.nil
                 /\ Len(out.errs) = 1 /\ out.errs[1].code = "BadServerResponse"

\* OpenX is handed a status 400.
C27_Witness ==
    /\ call.valid
    /\ call.fn = "MakeBids"
    /\ call.adapter = "openx"
    /\ call.response.StatusCode = StatusBadRequest
    /\ Len(call.out.errs) = 1

\* C28: after NewMetrics every labelled vector holds a series for every
\* combination of valid values of exactly its own label names, so a record
\* call with valid labels never creates a series.
C28_AllSeriesPreCreated ==
    (call.valid /\ call.fn = "Record") =>
        /\ call.series = LabelProduct(call.names)
        /\ ~call.created

\* The events the claim expects of a notification.
UpdateOf(n) == n.id :> n.requestData
InvalidationOf(n) == <<n.id>>

HandledWith(action) == SelectSeq(pgHandled, LAMBDA n : n.action = action)

\* C26: the database notify producer emits an event exactly for UPDATE and
\* DELETE notifications: a handled UPDATE is followed by the event
\* {id: requestData} on Updates(), a handled DELETE by [id] on
\* Invalidations(), and nothing else is ever sent on either channel.
C26_NotifyProducerEmits ==
    /\ \A n \in {m \in Notifications : m.action = "UPDATE"} :
         (n \in Range(pgHandled)) ~> (UpdateOf(n) \in Range(pgUpdates))
    /\ \A n \in {m \in Notifications : m.action = "DELETE"} :
         (n \in Range(pgHandled)) ~> (InvalidationOf(n) \in Range(pgInvalidations))
    /\ [](/\ Len(pgUpdates) <= Len(HandledWith("UPDATE"))
          /\ Len(pgInvalidations) <= Len(HandledWith("DELETE")))

\* C29: the file fetcher with its watcher is safe under concurrent use: a
\* read of the stored-request map by FetchRequests never overlaps the
\* watcher's write to it, and a map FetchRequests has returned is not
\* modified afterwards.
C29_FileFetcherConcurrencySafe ==
    /\ ~(rpc = "looking" /\ wpc = "storing")
    /\ ~raced
    /\ rpc = "returned" => fileReqs = rsnap

\* The requested ids without a loaded file, in the order asked.
Unloaded(ids) == SelectSeq(ids, LAMBDA id : id \notin DOMAIN disk)

\* C30: the file fetcher's FetchRequests returns one error for each requested
\* id without a loaded file and none for an id with one; when it returns no
\* error the returned map has a key for every requested id.
C30_OneErrorPerUnloadedId ==
    rpc = "returned" =>
        /\ rerrs = [i \in 1..Len(Unloaded(rids)) |-> NotFoundError(Unloaded(rids)[i])]
        /\ rerrs = <<>> => Range(rids) \subseteq DOMAIN fileReqs

\* A call for an id without a file and one with a file, returned after the
\* watcher has reloaded that file.
C30_Witness ==
    /\ rpc = "returned"
    /\ rids = <<"2", "1">>
    /\ DOMAIN disk = {"1"}
    /\ Len(rerrs) = 1
    /\ fileReqs["1"] = "b"

\* C35: composedCache.Get leaves the caller's id list as it was: the same
\* elements in the same order, however the ids are spread over the layers.
C35_GetKeepsCallersIds ==
    cret.op = "Get" => cret.idsAfter = cret.ids

\* C34: whenever the request asks for bid-level or VAST caching, HoldAuction
\* calls the caching stage (auc.doCache) with the flags asked for, whether or
\* not targeting is present.
C34_CachingStageRunsWhenAsked ==
    (call.valid /\ call.fn = "auctionContexts")
    => ((call.ext.cache /\ (call.ext.bids \/ call.ext.vast))
        => /\ call.out.doCache.called
           /\ call.out.doCache.bids = (call.ext.cache /\ call.ext.bids)
           /\ call.out.doCache.vast = (call.ext.cache /\ call.ext.vast))

\* C40: when request.ext does not decode, HoldAuction returns the error before
\* the dispatch: no adapter goroutine is started then or later, so nothing is
\* sent, collected or recorded for the request, and the stage after the
\* collection (where the cache put is made) is never entered.
C40_DecodeFailureBeforeDispatch ==
    (resp.returned /\ resp.failed)
    => /\ disp = "failed"
       /\ \A b \in Bidders : tpc[b] = "idle" /\ received[b] = 0
       /\ DOMAIN produced = {}
       /\ panicked = {}
       /\ chBids = <<>>
       /\ nrecv = 0
       /\ DOMAIN adapterBids = {}

\* C40's case: the decoding failed on a request that had bidders to call.
C40_Witness ==
    /\ resp.returned /\ resp.failed
    /\ disp = "failed"
    /\ cleanRequests = Bidders

\* C38: Brightroll MakeBids handed a status 200 whose body parses and holds no
\* seat bid returns an empty bid list and no error, without panicking.
C38_BrightrollNoSeatBids ==
    (/\ call.valid /\ call.fn = "MakeBids" /\ call.adapter = "brightroll"
     /\ call.response.StatusCode = StatusOK
     /\ call.response.Body.parses
     /\ Len(call.response.Body.SeatBid) = 0)
    => /\ ~call.out.panic
       /\ call.out.response.Bids = <<>>
       /\ call.out.errs = <<>>

\* C37: a reload whose read of the file failed changes neither the value the
\* fetcher holds for the id nor any subscribed cache.
C37_FailedReloadKeepsValue ==
    [][(wpc \in {"storing", "notify"} /\ wdata = NilData)
       => (fileReqs' = fileReqs /\ fileCache' = fileCache)]_vars

\* C33: once the watcher has handled every write event, the fetcher holds for
\* every loaded id what its file holds, and the subscribed cache holds the
\* same for every id an Update was delivered for.
C33_WriteReloadsFile ==
    (Alive /\ wpc = "select" /\ wq = <<>>)
    => /\ \A id \in DOMAIN disk : fileReqs[id] = disk[id]
       /\ \A id \in DOMAIN fileCache : fileCache[id] = disk[id]

\* The updates and invalidations the listener has received and applied.
AppliedUpdates == pushedU - (IF lpc = "update" THEN 1 ELSE 0)
AppliedInvalidations == pushedI - (IF lpc = "invalidate" THEN 1 ELSE 0)

\* A Get of id returns what the event received last for id left.
SeesEffect(id) ==
    LET got == CacheGet(cache, <<id>>)
    IN  /\ lastEv[id].kind = "update" => id \in DOMAIN got /\ got[id] = lastEv[id].val
        /\ lastEv[id].kind = "invalidate" => id \notin DOMAIN got

\* C31: whatever UpdateCount() or InvalidationCount() returns, that many
\* events of its kind have been applied to the cache already; and when the
\* counters returned cover every event received, a Get sees the effect of the
\* last event of every id.
C31_CounterNeverAhead ==
    /\ \A k \in UpdateCountReads : k <= AppliedUpdates
    /\ \A k \in InvalidationCountReads : k <= AppliedInvalidations
    /\ \A k \in UpdateCountReads, j \in InvalidationCountReads :
         (k = pushedU /\ j = pushedI) => \A id \in Ids : SeesEffect(id)

\* C31's case: the first update is applied and counted, and a second one is
\* received and not applied yet.
C31_Witness ==
    /\ updateCount = 1
    /\ pushedU = 2
    /\ lpc = "update"
    /\ hreq[1].id \in DOMAIN cache
    /\ AppliedUpdates = 1

\* The handler of request r returns in this step.
Returns(r) == hpc[r] # "done" /\ hpc'[r] = "done"

\* The listener receives the event of request r in this step.
ReceivesEventOf(r) ==
    /\ lpc = "select"
    /\ lpc' \in {"update", "invalidate"}
    /\ ldata' = hevent'[r]
    /\ hevent'[r] # NoEvent

\* C32: the handler of a POST with a JSON body or of a DELETE returns in the
\* step in which the listener receives its event, and in no other: while the
\* listener is not at its select, receiving, the handler stays in its send.
C32_ReturnsOnReceipt ==
    [][\A r \in Requests :
         /\ (Returns(r) /\ Accepted(hreq'[r])) => ReceivesEventOf(r)
         /\ (hpc[r] = "send" /\ lpc # "select") => hpc'[r] = "send"]_vars

\* C32's case: the first request has returned, its event received, and the
\* second waits in its send while the listener applies the first.
C32_Witness ==
    /\ hpc[1] = "done" /\ Accepted(hreq[1])
    /\ hpc[2] = "send" /\ Accepted(hreq[2])
    /\ lpc \in {"update", "invalidate"}
    /\ ldata = hevent[1]

\* C36: no two goroutines getAllBids starts are handed the same metrics-label
\* record: each name of the cleaned-request map writes to a record of its own.
C36_OneLabelRecordPerTask ==
    (call.valid /\ call.fn = "getAllBids")
    => \A a, b \in call.names : a # b => call.out[a] # call.out[b]

\* The positions (request, impression) at which the outbound requests carry
\* the impression id.
OutboundPlaces(out, id) ==
    {rj \in (1..Len(out.requests)) \X (1..MaxImps + 1) :
        /\ rj[2] <= Len(out.requests[rj[1]].Body.Imp)
        /\ out.requests[rj[1]].Body.Imp[rj[2]].ID = id}

WellFormed(imp) == imp.Ext # ExtMalformed
IsBannerImp(imp) == imp.Banner
IsVideoOnlyImp(imp) == imp.Video /\ ~imp.Banner

\* C39: OpenX MakeRequests puts every well-formed banner impression (one
\* with a video too counts as banner) into one and the same outbound request
\* with no video-only impression in it, every well-formed video-only
\* impression alone into a request of its own, each of them exactly once; an
\* impression that is neither is sent in none and yields one BadInput error;
\* and the caller's request keeps its impressions and its extension.
C39_OpenxSplitsByMediaType ==
    (call.valid /\ call.fn = "MakeRequests") =>
        LET imps == call.request.Imp
            out == call.out
            Imps == {imps[i] : i \in 1..Len(imps)}
        IN  /\ \A imp \in Imps :
                 /\ (WellFormed(imp) /\ (imp.Banner \/ imp.Video))
                      => Cardinality(OutboundPlaces(out, imp.ID)) = 1
                 /\ (WellFormed(imp) /\ IsVideoOnlyImp(imp))
                      => \A rj \in OutboundPlaces(out, imp.ID) :
                           Len(out.requests[rj[1]].Body.Imp) = 1
                 /\ (~imp.Banner /\ ~imp.Video)
                      => /\ OutboundPlaces(out, imp.ID) = {}
                         /\ Cardinality({k \in 1..Len(out.errs) :
                                           out.errs[k] = CapabilityError(imp)}) = 1
            /\ \A a, b \in Imps :
                 (WellFormed(a) /\ IsBannerImp(a) /\ WellFormed(b) /\ IsBannerImp(b))
                   => \E r \in 1..Len(out.requests) :
                        /\ \E j \in 1..Len(out.requests[r].Body.Imp) :
                             out.requests[r].Body.Imp[j].ID = a.ID
                        /\ \E j \in 1..Len(out.requests[r].Body.Imp) :
                             out.requests[r].Body.Imp[j].ID = b.ID
            /\ \A k \in 1..Len(out.errs) : out.errs[k].code = "BadInput"
            /\ out.request = call.request

\* C39's case: an impression with banner and video, a video-only one and one
\* that is neither, all with well-formed parameters: two outbound requests
\* and one error.
C39_Witness ==
    /\ call.valid /\ call.fn = "MakeRequests"
    /\ Len(call.request.Imp) = 3
    /\ call.request.Imp[1].Banner /\ call.request.Imp[1].Video
    /\ IsVideoOnlyImp(call.request.Imp[2])
    /\ ~call.request.Imp[3].Banner /\ ~call.request.Imp[3].Video
    /\ \A i \in 1..3 : WellFormed(call.request.Imp[i])
    /\ Len(call.out.requests) = 2
    /\ Len(call.out.errs) = 1
    /\ call.out.requests[1].Body.Ext = OpenxReqExt

====
